---- MODULE Spec2Model ----
(***************************************************************************)
(* The AI interview backend of server.js: the provider pool with its       *)
(* exhaustion flags, the retry executor, the failover dispatcher, the      *)
(* session store and the request handlers.                                 *)
(*                                                                         *)
(* A request handler is an async function: it runs without interruption   *)
(* from one await to the next, so one action of the model is one such     *)
(* segment.  The suspension points of a dispatcher call are the provider   *)
(* call (server.js:84) and the backoff delays (server.js:135, 150).       *)
(***************************************************************************)
EXTENDS Integers, Sequences, FiniteSets, TLC

VARIABLES
    geminiProviders,    \* server.js:17   the provider pool, in configuration order
    interviewSessions,  \* server.js:156  the keys present in the session Map
    sessionData,        \* the session objects, by sessionId (they outlive the Map entry)
    aiResponse,         \* server.js:286  assigned without declaration: a global
    req,                \* the in-flight requests, one record per request slot
    hist,               \* history of the dispatcher call of slot 1 (sequential runs)
    retry,              \* the frame of a retryApiCall call (runs of retryApiCall alone)
    clock,              \* Date.now() in ms, and the time of the last expiry sweep
    probe               \* a text and the outcome of the termination check on it

vars == <<geminiProviders, interviewSessions, sessionData, aiResponse, req, hist, retry,
          clock, probe>>

----------------------------------------------------------------------------
(* Bounds *)

NumProviders == 3       \* configured API keys (1..10 in server.js:24), one call at a time
ConcProviders == 2      \* configured API keys when dispatcher calls run concurrently
MaxInFlight == 2        \* requests in flight at once

ReqIds == 1..MaxInFlight

----------------------------------------------------------------------------
(* Errors a provider call can reject with.  message is the set of the      *)
(* marker substrings the message contains (String.includes).               *)

Markers == {"quota", "Too Many Requests", "Service Unavailable", "overloaded"}

ProviderErrors ==
    { [status |-> 429, message |-> {}],
      [status |-> 0,   message |-> {"quota"}],
      [status |-> 0,   message |-> {"Too Many Requests"}],
      [status |-> 503, message |-> {}],
      [status |-> 0,   message |-> {"overloaded"}],
      [status |-> 0,   message |-> {"Service Unavailable"}],
      [status |-> 503, message |-> {"quota"}],
      [status |-> 500, message |-> {}] }

NoError == [status |-> 0, message |-> {"<none>"}]

\* server.js:111
AggregateError == [status |-> 0, message |-> {"providers are currently unavailable"}]

\* IsQuotaError without the test of the status.
IsQuotaErrorMessageOnly(error) ==
    \/ "quota" \in error.message
    \/ "Too Many Requests" \in error.message

\* server.js:92 and server.js:124 (the same test, written twice)
IsQuotaError(error) ==
    \/ error.status = 429
    \/ "quota" \in error.message
    \/ "Too Many Requests" \in error.message

\* server.js:130
IsOverloadError(error) ==
    \/ error.status = 503
    \/ "Service Unavailable" \in error.message
    \/ "overloaded" \in error.message

----------------------------------------------------------------------------
(* Provider output: untrusted text.  A text is described by what the       *)
(* handlers do with it: trim() (plain), and the JSON.parse of the cleaned  *)
(* text (json, items, score, feedback, idealAnswer).                       *)

NoScore == [t |-> "missing", tenths |-> 0]

PlainText(s) ==
    [plain |-> s, json |-> "invalid", items |-> <<>>,
     score |-> NoScore, feedback |-> FALSE, idealAnswer |-> FALSE]

HelloText == PlainText("hello")

NoResult == [defined |-> FALSE, from |-> 0, text |-> PlainText("")]

----------------------------------------------------------------------------
(* retryApiCall, server.js:116-153 *)

DefaultMaxRetries == 2      \* server.js:62   callGeminiAI(prompt, maxRetries = 2)
DefaultDelay == 2000        \* server.js:116  retryApiCall(.., delay = 2000)
OverloadWait == 5000        \* server.js:133

RECURSIVE Pow2(_)
Pow2(n) == IF n <= 0 THEN 1 ELSE 2 * Pow2(n - 1)

\* RetryDecision that treats a quota error like any other error.
RetryDecisionQuotaRetried(attempt, maxRetries, error) ==
    IF IsOverloadError(error)
    THEN (IF attempt = 1 THEN "wait" ELSE "throw")
    ELSE IF attempt = maxRetries THEN "throw"
    ELSE "wait"

\* What the catch block of one attempt does with the error: "throw" or "wait".
RetryDecision(attempt, maxRetries, error) ==
    IF IsQuotaError(error) THEN "throw"                            \* 124-127
    ELSE IF IsOverloadError(error)
         THEN (IF attempt = 1 THEN "wait" ELSE "throw")            \* 130-141
    ELSE IF attempt = maxRetries THEN "throw"                      \* 143-145
    ELSE "wait"                                                    \* 148-150

\* RetryWaitTime without the exponential backoff.
RetryWaitTimeFixed(attempt, delay, error) ==
    IF IsOverloadError(error) THEN OverloadWait
    ELSE delay

\* The delay taken before the next attempt.
RetryWaitTime(attempt, delay, error) ==
    IF IsOverloadError(error) THEN OverloadWait                    \* 133
    ELSE delay * Pow2(attempt - 1)                                 \* 148

\* server.js:117  attempt++ and the loop test attempt <= maxRetries
AttemptLeft(attempt, maxRetries) == attempt + 1 <= maxRetries

\* The value retryApiCall returns when its loop ends without a return
NoValue == "<undefined>"

\* The frame of one retryApiCall call, with what it has done so far: the
\* number of invocations of apiFunction, the errors they rejected with and
\* the delays taken, in order.
NoRetry ==
    [phase |-> "idle", attempt |-> 0, maxRetries |-> 0, delay |-> 0,
     invocations |-> 0, failures |-> <<>>, waits |-> <<>>,
     value |-> NoValue, error |-> NoError]

\* server.js:116-119  the call up to the await of the first invocation
RetryCall(maxRetries, delay) ==
    [NoRetry EXCEPT !.phase = "invoking", !.attempt = 1, !.maxRetries = maxRetries,
                    !.delay = delay, !.invocations = 1]

\* server.js:119  apiFunction resolved: return its value
RetryReturn(frame, value) ==
    [frame EXCEPT !.phase = "returned", !.value = value]

\* server.js:120-150  apiFunction rejected: throw, or start a delay
RetryCatch(frame, error) ==
    LET failed == [frame EXCEPT !.failures = Append(@, error)]
    IN  IF RetryDecision(frame.attempt, frame.maxRetries, error) = "throw"
        THEN [failed EXCEPT !.phase = "threw", !.error = error]
        ELSE [failed EXCEPT !.phase = "waiting",
                            !.waits = Append(@, RetryWaitTime(frame.attempt, frame.delay, error))]

\* server.js:117-119, 152  the delay is over: the next invocation, or the end
\* of the loop and of the function, which returns undefined
RetryAfterWait(frame) ==
    IF AttemptLeft(frame.attempt, frame.maxRetries)
    THEN [frame EXCEPT !.phase = "invoking", !.attempt = frame.attempt + 1,
                       !.invocations = frame.invocations + 1]
    ELSE [frame EXCEPT !.phase = "returned", !.value = NoValue]

----------------------------------------------------------------------------
(* callGeminiAI, server.js:62-112.  The frame of one call; once the call has *)
(* returned or thrown only its result or error is left.                    *)

NoCall ==
    [phase |-> "none", providersToTry |-> <<>>, pos |-> 0, attempt |-> 0,
     maxRetries |-> 0, waitTime |-> 0, result |-> NoResult, error |-> NoError]

\* server.js:64  geminiProviders.filter(p => !p.isExhausted), as pool indices
RECURSIVE AvailableFrom(_, _)
AvailableFrom(pool, i) ==
    IF i > Len(pool) THEN <<>>
    ELSE (IF pool[i].isExhausted THEN <<>> ELSE <<i>>) \o AvailableFrom(pool, i + 1)

AvailableProviders(pool) == AvailableFrom(pool, 1)

AllProviders(pool) == [i \in 1..Len(pool) |-> i]

\* server.js:68
ResetFlags(pool) == [i \in 1..Len(pool) |-> [pool[i] EXCEPT !.isExhausted = FALSE]]

\* server.js:94
MarkExhausted(pool, p) == [pool EXCEPT ![p].isExhausted = TRUE]

\* The loop without its skip test.
SkipProviderNever(pool, p) == FALSE

\* server.js:76  the skip test of the loop
SkipProvider(pool, p) == pool[p].isExhausted

\* server.js:74-106  the for loop from position k of providersToTry up to the
\* next provider invocation (an await) or the throw after the loop (109-111).
RECURSIVE Iterate(_, _, _)
Iterate(pool, call, k) ==
    IF k > Len(call.providersToTry)
    THEN [pool |-> pool,
          call |-> [NoCall EXCEPT !.phase = "threw", !.error = AggregateError]]
    ELSE IF SkipProvider(pool, call.providersToTry[k])
    THEN Iterate(pool, call, k + 1)
    ELSE [pool |-> pool,
          call |-> [call EXCEPT !.phase = "provider", !.pos = k, !.attempt = 1,
                                !.waitTime = 0]]

\* StartCall whose push of server.js:69 is not under the length test of 66:
\* every provider is appended after the available ones.
StartCallPushesAll(pool, maxRetries) ==
    LET avail == AvailableProviders(pool)
        pool1 == IF Len(avail) = 0 THEN ResetFlags(pool) ELSE pool
    IN  Iterate(pool1, [NoCall EXCEPT !.providersToTry = avail \o AllProviders(pool),
                                      !.maxRetries = maxRetries], 1)

\* StartCall without the push of server.js:69: the flags are reset but the
\* candidate list stays empty.
StartCallNoPush(pool, maxRetries) ==
    LET avail == AvailableProviders(pool)
        pool1 == IF Len(avail) = 0 THEN ResetFlags(pool) ELSE pool
    IN  Iterate(pool1, [NoCall EXCEPT !.providersToTry = avail,
                                      !.maxRetries = maxRetries], 1)

\* server.js:62-83  the call up to its first await
StartCall(pool, maxRetries) ==
    LET avail == AvailableProviders(pool)
        reset == Len(avail) = 0
        pool1 == IF reset THEN ResetFlags(pool) ELSE pool
        toTry == IF reset THEN AllProviders(pool) ELSE avail
    IN  Iterate(pool1, [NoCall EXCEPT !.providersToTry = toTry,
                                      !.maxRetries = maxRetries], 1)

CurrentProvider(call) == call.providersToTry[call.pos]

\* DispatcherCatch that passes over the next candidate after a non-quota error.
DispatcherCatchSkipsNext(pool, call, error) ==
    IF IsQuotaError(error)
    THEN Iterate(MarkExhausted(pool, CurrentProvider(call)), call, call.pos + 1)
    ELSE Iterate(pool, call, call.pos + 2)

\* DispatcherCatch that rethrows a non-quota error of the last candidate.
DispatcherCatchRethrowsLast(pool, call, error) ==
    IF IsQuotaError(error)
    THEN Iterate(MarkExhausted(pool, CurrentProvider(call)), call, call.pos + 1)
    ELSE IF call.pos = Len(call.providersToTry)
    THEN [pool |-> pool,
          call |-> [NoCall EXCEPT !.phase = "threw", !.error = error]]
    ELSE Iterate(pool, call, call.pos + 1)

\* DispatcherCatch that gives up the call on a non-quota error.
DispatcherCatchStopsOnOther(pool, call, error) ==
    IF IsQuotaError(error)
    THEN Iterate(MarkExhausted(pool, CurrentProvider(call)), call, call.pos + 1)
    ELSE Iterate(pool, call, Len(call.providersToTry) + 1)

\* DispatcherCatch that marks the provider exhausted on every error.
DispatcherCatchMarksAll(pool, call, error) ==
    Iterate(MarkExhausted(pool, CurrentProvider(call)), call, call.pos + 1)

\* server.js:88-105  the catch block of the loop, then the loop goes on
DispatcherCatch(pool, call, error) ==
    IF IsQuotaError(error)
    THEN Iterate(MarkExhausted(pool, CurrentProvider(call)), call, call.pos + 1)
    ELSE Iterate(pool, call, call.pos + 1)

\* The provider call of the current attempt settled with a success.
OnProviderSuccess(pool, call, text) ==
    [pool |-> pool,
     call |-> [NoCall EXCEPT !.phase = "returned",
                           !.result = [defined |-> TRUE,
                                       from |-> CurrentProvider(call),
                                       text |-> text]]]

\* The provider call of the current attempt rejected with error.
OnProviderError(pool, call, error) ==
    IF RetryDecision(call.attempt, call.maxRetries, error) = "throw"
    THEN DispatcherCatch(pool, call, error)
    ELSE [pool |-> pool,
          call |-> [call EXCEPT !.phase = "delay",
                                !.waitTime = RetryWaitTime(call.attempt, DefaultDelay, error)]]

\* server.js:117  the delay is over: attempt++ and the loop test.  When no
\* attempt is left the loop ends and retryApiCall returns undefined.
OnDelayElapsed(pool, call) ==
    IF AttemptLeft(call.attempt, call.maxRetries)
    THEN [pool |-> pool,
          call |-> [call EXCEPT !.phase = "provider", !.attempt = call.attempt + 1,
                                !.waitTime = 0]]
    ELSE [pool |-> pool,
          call |-> [NoCall EXCEPT !.phase = "returned", !.result = NoResult]]

----------------------------------------------------------------------------
(* Sessions, server.js:321-329 *)

SessionProviders == 1   \* configured API keys in the runs with sessions
MaxSessions == 1        \* sessions created in a run
MaxAnswers == 2         \* answer records a session receives in a run

\* questions[i] past the end of the array
Undefined == "<undefined>"

\* JavaScript truthiness of a string or undefined
Truthy(q) == q # "" /\ q # Undefined

\* server.js:290-294  the questions used when the dispatcher call fails
FallbackQuestions ==
    << "Can you tell me about yourself and your professional background?",
       "What interests you most about this type of role?",
       "Describe a challenging project you've worked on recently and how you overcame obstacles." >>

\* server.js:313-317  the questions used when the output is no non-empty array
DefaultQuestions ==
    << "Can you tell me about yourself and your professional background?",
       "What interests you most about this position and our company?",
       "Describe a challenging project you've worked on recently and how you overcame obstacles." >>

\* server.js:669-682
SmartFallbackQuestions ==
    << "What motivates you in your professional work?",
       "How do you handle working under pressure or tight deadlines?",
       "Can you describe your approach to learning new technologies or skills?",
       "Tell me about a time when you had to collaborate with a difficult team member.",
       "Describe a situation where you had to adapt to significant changes at work.",
       "What do you consider to be your greatest professional strength?",
       "Where do you see yourself in your career five years from now?",
       "What type of work environment brings out your best performance?",
       "Can you share an example of a mistake you made and how you handled it?" >>

Min(a, b) == IF a <= b THEN a ELSE b
Max(a, b) == IF a >= b THEN a ELSE b

\* A text that is a JSON array of strings
ArrayText(items) ==
    [plain |-> "<json array>", json |-> "array", items |-> items,
     score |-> NoScore, feedback |-> FALSE, idealAnswer |-> FALSE]

\* A text that is a JSON object; score is its score member, feedback and
\* idealAnswer tell whether those members are present and truthy.
ObjectText(score, feedback, idealAnswer) ==
    [plain |-> "<json object>", json |-> "object", items |-> <<>>,
     score |-> score, feedback |-> feedback, idealAnswer |-> idealAnswer]

\* A JSON number, in tenths (7.5 is 75), and a JSON string that is no number
JsonNumber(tenths) == [t |-> "number", tenths |-> tenths]
JsonWord == [t |-> "string", tenths |-> 0]

\* A JavaScript number: NaN, or a value in tenths
NaN == [nan |-> TRUE, tenths |-> 0]
Num(tenths) == [nan |-> FALSE, tenths |-> tenths]

\* server.js:595  !evaluation.score is false
ScoreTruthy(v) == (v.t = "number" /\ v.tenths # 0) \/ v.t = "string"

\* server.js:600  Number(evaluation.score)
ToNumber(v) == IF v.t = "number" THEN Num(v.tenths) ELSE NaN

\* server.js:600  Math.max(1, Math.min(10, x)); both yield NaN for NaN
ClampScore(x) == IF x.nan THEN NaN ELSE Num(Max(10, Min(100, x.tenths)))

NoEvaluation == [present |-> FALSE, score |-> NaN]

\* A default evaluation with score 5.
DefaultEvaluationFive == [present |-> TRUE, score |-> Num(50)]

\* server.js:605-609
DefaultEvaluation == [present |-> TRUE, score |-> Num(70)]

\* server.js:588-610  the evaluation parsed from the text, or the default
ParseEvaluation(text) ==
    IF text.json # "object" THEN DefaultEvaluation
    ELSE IF ~ScoreTruthy(text.score) \/ ~text.feedback \/ ~text.idealAnswer
    THEN DefaultEvaluation
    ELSE [present |-> TRUE, score |-> ClampScore(ToNumber(text.score))]

\* server.js:304-317  the questions parsed from the text, or the default
ParseQuestions(text) ==
    IF text.json = "array" /\ Len(text.items) > 0 THEN text.items
    ELSE DefaultQuestions

\* A text of the user is the sequence of its characters.
NoAnswer == <<>>

UpperCase == <<"A", "B", "C", "D", "E", "F", "G", "H", "I", "J", "K", "L", "M",
              "N", "O", "P", "Q", "R", "S", "T", "U", "V", "W", "X", "Y", "Z">>
LowerCase == <<"a", "b", "c", "d", "e", "f", "g", "h", "i", "j", "k", "l", "m",
              "n", "o", "p", "q", "r", "s", "t", "u", "v", "w", "x", "y", "z">>

\* The lower-case letter of every upper-case letter
LowerOf ==
    [c \in {UpperCase[i] : i \in 1..Len(UpperCase)} |->
        LowerCase[CHOOSE i \in 1..Len(UpperCase) : UpperCase[i] = c]]

ToLowerChar(c) == IF c \in DOMAIN LowerOf THEN LowerOf[c] ELSE c

\* The i flag of the patterns of server.js:475 and 572
ToLowerCase(s) == [i \in 1..Len(s) |-> ToLowerChar(s[i])]

\* The characters \s matches and trim() removes, among those of the inputs
WhiteSpace == {" ", "\t", "\n", "\r"}

RECURSIVE TrimStart(_)
TrimStart(s) ==
    IF Len(s) > 0 /\ s[1] \in WhiteSpace THEN TrimStart(Tail(s)) ELSE s

RECURSIVE TrimEnd(_)
TrimEnd(s) ==
    IF Len(s) > 0 /\ s[Len(s)] \in WhiteSpace THEN TrimEnd(SubSeq(s, 1, Len(s) - 1)) ELSE s

\* server.js:476  userAnswer.trim()
Trim(s) == TrimEnd(TrimStart(s))

\* String.includes, RegExp.test of a literal
Includes(s, w) ==
    \E i \in 1..(Len(s) - Len(w) + 1) : SubSeq(s, i, i + Len(w) - 1) = w

\* server.js:572  the alternatives of the hasExamples pattern
ExampleWords ==
    { <<"e", "x", "a", "m", "p", "l", "e">>,
      <<"e", "x", "p", "e", "r", "i", "e", "n", "c", "e">>,
      <<"p", "r", "o", "j", "e", "c", "t">>,
      <<"w", "o", "r", "k", "e", "d">>,
      <<"m", "a", "n", "a", "g", "e", "d">>,
      <<"l", "e", "d">> }

\* server.js:475  the alternatives of thankYouPattern after thank\s*you
ThankYouAlternatives ==
    { <<"t", "h", "a", "n", "k", "s">>,
      <<"t", "h", "x">>,
      <<"g", "o", "o", "d", "b", "y", "e">>,
      <<"b", "y", "e">>,
      <<"e", "n", "d">>,
      <<"f", "i", "n", "i", "s", "h">>,
      <<"d", "o", "n", "e">>,
      <<"t", "h", "a", "t", "'", "s", " ", "a", "l", "l">>,
      <<"s", "t", "o", "p">> }

\* server.js:475  the alternative thank\s*you, between ^ and $
ThankSpacesYou(s) ==
    /\ Len(s) >= 8
    /\ SubSeq(s, 1, 5) = <<"t", "h", "a", "n", "k">>
    /\ SubSeq(s, Len(s) - 2, Len(s)) = <<"y", "o", "u">>
    /\ \A i \in 6..(Len(s) - 3) : s[i] \in WhiteSpace

\* server.js:475  thankYouPattern.test(s): the whole of s, whatever its case,
\* is one of the alternatives
ThankYouPattern(s) ==
    LET l == ToLowerCase(s)
    IN  l \in ThankYouAlternatives \/ ThankSpacesYou(l)

\* server.js:476
IsEndingInterview(userAnswer) == ThankYouPattern(Trim(userAnswer))

\* A text before it is tested
NoProbe == [userAnswer |-> NoAnswer, tested |-> FALSE, isEndingInterview |-> FALSE]

\* A fallback score that leaves the words of the pattern out.
FallbackScoreByLength(userAnswer) ==
    LET answerLength == Len(userAnswer)
    IN  6 + (IF answerLength > 100 THEN 1 ELSE 0) + (IF answerLength > 200 THEN 1 ELSE 0)

\* server.js:571-581
FallbackScore(userAnswer) ==
    LET answerLength == Len(userAnswer)
        lowerCase   == ToLowerCase(userAnswer)
        hasExamples == \E w \in ExampleWords : Includes(lowerCase, w)
        isDetailed  == answerLength > 100
        s1 == 6 + (IF hasExamples THEN 1 ELSE 0)
        s2 == s1 + (IF isDetailed THEN 1 ELSE 0)
        s3 == s2 + (IF answerLength > 200 THEN 1 ELSE 0)
    IN  Min(s3, 10)

\* server.js:580-584
FallbackEvaluationText(userAnswer) ==
    ObjectText(JsonNumber(10 * FallbackScore(userAnswer)), TRUE, TRUE)

\* server.js:488  the reduce over answer.evaluation.score, in tenths; NaN once a
\* score is NaN
RECURSIVE TotalScore(_, _)
TotalScore(answers, i) ==
    IF i > Len(answers) THEN Num(0)
    ELSE LET rest == TotalScore(answers, i + 1)
             score == answers[i].evaluation.score
         IN  IF rest.nan \/ score.nan THEN NaN ELSE Num(score.tenths + rest.tenths)

\* Fixed(1) of total / count for a total in tenths: the quotient rounded to
\* the nearest tenth, a tie to the larger one
ToFixed1(total, count) ==
    IF total.nan THEN [present |-> TRUE, nan |-> TRUE, tenths |-> 0]
    ELSE [present |-> TRUE, nan |-> FALSE,
          tenths |-> (2 * total.tenths + count) \div (2 * count)]

\* server.js:483-489, 523  averageScore.toFixed(1)
AverageScore(answers) ==
    IF Len(answers) = 0 THEN ToFixed1(Num(0), 1)
    ELSE ToFixed1(TotalScore(answers, 1), Len(answers))

\* server.js:321-329
NewSession(resume, questions, startTime) ==
    [resume |-> resume, questions |-> questions, currentQuestionIndex |-> 0,
     answers |-> <<>>, startTime |-> startTime, isComplete |-> FALSE]

\* questions[i] of a JavaScript array (indices from 0)
QuestionAt(session, i) ==
    IF i + 1 <= Len(session.questions) THEN session.questions[i + 1] ELSE Undefined
\* StoreAnswer that reopens the session when a record is pushed.
StoreAnswerReopens(session, record) ==
    [session EXCEPT !.answers = Append(@, record),
                    !.currentQuestionIndex = @ + 1,
                    !.isComplete = FALSE]

\* StoreAnswer that advances the index only while a question is left.
StoreAnswerGuarded(session, record) ==
    [session EXCEPT !.answers = Append(@, record),
                    !.currentQuestionIndex =
                        IF @ < Len(session.questions) THEN @ + 1 ELSE @]

\* server.js:613-622 and server.js:374-382  push the record, then index++
StoreAnswer(session, record) ==
    [session EXCEPT !.answers = Append(@, record),
                    !.currentQuestionIndex = @ + 1]
\* SmartQuestion that selects by the random offset alone, without the
\* progression of server.js:667 and 684.
SmartQuestionByOffset(session, randomOffset) ==
    SmartFallbackQuestions[Min(randomOffset, Len(SmartFallbackQuestions) - 1) + 1]

\* server.js:685-688  the fallback question for a random offset in 0..2
SmartQuestion(session, randomOffset) ==
    LET questionCount == Len(session.answers)
        baseIndex     == Min(questionCount, Len(SmartFallbackQuestions) - 1)
        selectedIndex == Min(baseIndex + randomOffset, Len(SmartFallbackQuestions) - 1)
    IN  SmartFallbackQuestions[selectedIndex + 1]

----------------------------------------------------------------------------
(* Requests *)

\* The members of a response body that are numbers: currentQuestion,
\* totalQuestions, and averageScore as toFixed(1) formats it.
NoAverage == [present |-> FALSE, nan |-> FALSE, tenths |-> 0]

NoBody == [currentQuestion |-> 0, totalQuestions |-> 0, averageScore |-> NoAverage]

IdleReq ==
    [kind |-> "idle", pc |-> "idle", call |-> NoCall, status |-> 0,
     sessionId |-> 0, resume |-> "", userAnswer |-> NoAnswer,
     currentQuestion |-> Undefined, evaluation |-> NoEvaluation,
     question |-> Undefined, body |-> NoBody,
     aiResponse |-> PlainText("")]     \* the local of server.js:563

Free(r) == req[r].pc \in {"idle", "responded"}

\* The request is suspended in a dispatcher call.
InCall(r) == req[r].pc \in {"calling", "questions", "eval", "nextq", "summary", "feedback"}

Flagged(pool) == {p \in 1..Len(pool) : pool[p].isExhausted}

\* What the dispatcher call of one request has done so far: the flags it found
\* at its start, the providers it invoked (in order, retries included), the
\* providers whose retry executor threw, the last error a provider rejected
\* with, and the reply of the provider that succeeded.
NoHist ==
    [startExhausted |-> {}, invoked |-> <<>>, failed |-> {}, quotaFailed |-> {},
     lastError |-> NoError, okFrom |-> 0, okText |-> PlainText("")]

\* A quota/rate-limit error, as the specification defines the class.
QuotaClass(error) ==
    error.status = 429 \/ error.message \cap {"quota", "Too Many Requests"} # {}

\* The step from call frame pre to call frame post invoked a provider.
Invokes(pre, post) ==
    /\ post.phase = "provider"
    /\ pre.phase # "provider" \/ pre.pos # post.pos

HistInvoked(h, pre, post) ==
    IF Invokes(pre, post) THEN [h EXCEPT !.invoked = Append(@, CurrentProvider(post))]
    ELSE h

HistStart(pool, post) ==
    HistInvoked([NoHist EXCEPT !.startExhausted = Flagged(pool)], NoCall, post)

HistFailure(h, pre, post, error) ==
    LET p  == CurrentProvider(pre)
        h1 == [h EXCEPT !.lastError = error]
        h2 == IF post.phase = "delay" THEN h1
              ELSE [h1 EXCEPT !.failed = @ \cup {p},
                              !.quotaFailed = IF QuotaClass(error) THEN @ \cup {p} ELSE @]
    IN  HistInvoked(h2, pre, post)

HistSuccess(h, pre, text) ==
    [h EXCEPT !.okFrom = CurrentProvider(pre), !.okText = text]

\* The slot of a request that has been answered: status and response body.
Response(rq, status, evaluation, question) ==
    [IdleReq EXCEPT !.kind = rq.kind, !.pc = "responded", !.status = status,
                    !.sessionId = rq.sessionId, !.evaluation = evaluation,
                    !.question = question]

\* A response that deletes the session the request names.
ReplyDropsSession(r, rq, status) ==
    /\ req' = [req EXCEPT ![r] = Response(rq, status, NoEvaluation, Undefined)]
    /\ interviewSessions' = interviewSessions \ {rq.sessionId}
    /\ UNCHANGED <<geminiProviders, sessionData, aiResponse>>

\* A response that changes nothing else
Reply(r, rq, status) ==
    /\ req' = [req EXCEPT ![r] = Response(rq, status, NoEvaluation, Undefined)]
    /\ UNCHANGED <<geminiProviders, interviewSessions, sessionData, aiResponse>>

\* The handler calls callGeminiAI and is suspended in it at pc.
Call(r, rq, pc, pool) ==
    LET c == StartCall(pool, DefaultMaxRetries)
    IN  /\ geminiProviders' = c.pool
        /\ req' = [req EXCEPT ![r] = [rq EXCEPT !.pc = pc, !.call = c.call]]

Succeeded(c) == c.call.phase = "returned" /\ c.call.result.defined

\* GET /test-ai, server.js:177-190: up to the await of the dispatcher call
TestAi(r) ==
    /\ Free(r)
    /\ Len(geminiProviders) > 0
    /\ Call(r, [IdleReq EXCEPT !.kind = "test-ai"], "calling", geminiProviders)
    /\ UNCHANGED <<interviewSessions, sessionData, aiResponse>>

\* server.js:188-225  the dispatcher call has returned or thrown
TestAiDone(r, c) ==
    /\ geminiProviders' = c.pool
    /\ req' = [req EXCEPT ![r] =
                 [Response(req[r], IF Succeeded(c) THEN 200 ELSE 500,
                           NoEvaluation, Undefined) EXCEPT !.call = c.call]]
    /\ UNCHANGED <<interviewSessions, sessionData, aiResponse>>

\* POST /api/start-interview, server.js:254-284: up to the dispatcher call
StartInterview(r, resume) ==
    /\ Free(r)
    /\ LET rq == [IdleReq EXCEPT !.kind = "start", !.resume = resume]
       IN  IF ~Truthy(resume) THEN Reply(r, rq, 400)
           ELSE /\ Call(r, rq, "questions", geminiProviders)
                /\ UNCHANGED <<interviewSessions, sessionData, aiResponse>>

\* server.js:299-340  parse the questions, store the session, respond
CreateSession(r, text) ==
    LET questions == ParseQuestions(text)
        sessionId == Len(sessionData) + 1
    IN  /\ sessionData' = Append(sessionData, NewSession(req[r].resume, questions, clock.now))
        /\ interviewSessions' = interviewSessions \cup {sessionId}
        /\ req' = [req EXCEPT ![r] =
                     [Response([req[r] EXCEPT !.sessionId = sessionId], 200,
                               NoEvaluation, questions[1])
                        EXCEPT !.body.currentQuestion = 1]]

\* server.js:284-297  the dispatcher call has returned (aiResponse is assigned,
\* then the await of line 297 suspends) or thrown (fallback text, no await)
StartAfterCall(r, c) ==
    /\ geminiProviders' = c.pool
    /\ IF Succeeded(c)
       THEN /\ aiResponse' = c.call.result.text
            /\ req' = [req EXCEPT ![r].pc = "parse", ![r].call = c.call]
            /\ UNCHANGED <<interviewSessions, sessionData>>
       ELSE /\ aiResponse' = ArrayText(FallbackQuestions)
            /\ CreateSession(r, ArrayText(FallbackQuestions))

\* server.js:297-340  after the await of line 297
StartParse(r) ==
    /\ req[r].pc = "parse"
    /\ CreateSession(r, aiResponse)
    /\ UNCHANGED <<geminiProviders, aiResponse>>

\* A response of GET /api/session/:sessionId that also carries the answers.
SessionInfoWithAnswers(sessionId, session) ==
    [sessionId |-> sessionId,
     currentQuestion |-> session.currentQuestionIndex + 1,
     totalQuestions |-> Len(session.questions),
     isComplete |-> session.isComplete,
     startTime |-> session.startTime,
     answers |-> session.answers]

\* server.js:730-737  the body of the response of GET /api/session/:sessionId
SessionInfo(sessionId, session) ==
    [sessionId |-> sessionId,
     currentQuestion |-> session.currentQuestionIndex + 1,
     totalQuestions |-> Len(session.questions),
     isComplete |-> session.isComplete,
     startTime |-> session.startTime]

\* server.js:719-737  what GET /api/session/:sessionId answers in a state
SessionResponse(store, data, sessionId) ==
    IF sessionId \notin store
    THEN [status |-> 404, body |-> NoBody]
    ELSE [status |-> 200, body |-> SessionInfo(sessionId, data[sessionId])]

\* A GET /api/session/:sessionId that removes the session it reads.
GetSessionDeletes(r, sessionId) ==
    /\ Free(r)
    /\ LET response == SessionResponse(interviewSessions, sessionData, sessionId)
       IN  req' = [req EXCEPT ![r] =
                     [IdleReq EXCEPT !.kind = "get", !.pc = "responded",
                                     !.sessionId = sessionId,
                                     !.status = response.status,
                                     !.body = response.body]]
    /\ interviewSessions' = interviewSessions \ {sessionId}
    /\ UNCHANGED <<geminiProviders, sessionData, aiResponse>>

\* GET /api/session/:sessionId, server.js:718-738 (no await)
GetSession(r, sessionId) ==
    /\ Free(r)
    /\ LET response == SessionResponse(interviewSessions, sessionData, sessionId)
       IN  req' = [req EXCEPT ![r] =
                     [IdleReq EXCEPT !.kind = "get", !.pc = "responded",
                                     !.sessionId = sessionId,
                                     !.status = response.status,
                                     !.body = response.body]]
    /\ UNCHANGED <<geminiProviders, interviewSessions, sessionData, aiResponse>>

\* Sessions stored or about to be stored
Started ==
    Len(sessionData) + Cardinality({q \in ReqIds : req[q].pc \in {"questions", "parse"}})

\* Requests suspended before they store an answer in the session
Pending(sessionId) ==
    Cardinality({q \in ReqIds : req[q].pc = "eval" /\ req[q].sessionId = sessionId})

\* EndSession that also advances the index.
EndSessionAdvances(session) ==
    [session EXCEPT !.isComplete = TRUE, !.currentQuestionIndex = @ + 1]

\* server.js:480-481  (endTime is read nowhere)
EndSession(session) == [session EXCEPT !.isComplete = TRUE]

\* server.js:478-528  the user ends the interview
SubmitEnding(r, rq) ==
    LET session == sessionData[rq.sessionId]
    IN  /\ sessionData' = [sessionData EXCEPT ![rq.sessionId] = EndSession(session)]
        /\ IF Len(session.answers) = 0
           THEN /\ interviewSessions' = interviewSessions \cup {rq.sessionId}
                /\ req' = [req EXCEPT ![r] =
                             [Response(rq, 200, NoEvaluation, Undefined)
                                EXCEPT !.body.averageScore = AverageScore(session.answers),
                                       !.body.totalQuestions = Len(session.answers)]]
                /\ UNCHANGED <<geminiProviders, aiResponse>>
           ELSE IF \E i \in 1..Len(session.answers) : ~session.answers[i].evaluation.present
           THEN \* answer.evaluation.score of a record without evaluation throws (488)
                /\ req' = [req EXCEPT ![r] = Response(rq, 500, NoEvaluation, Undefined)]
                /\ UNCHANGED <<geminiProviders, interviewSessions, aiResponse>>
           ELSE /\ Call(r, [rq EXCEPT !.body.averageScore = AverageScore(session.answers)],
                        "summary", geminiProviders)
                /\ UNCHANGED <<interviewSessions, aiResponse>>

\* server.js:530-565  a regular answer, up to the dispatcher call; a session
\* receives at most limit answers in a run
SubmitRegularUpTo(r, rq, limit) ==
    LET session == sessionData[rq.sessionId]
        currentQuestion == QuestionAt(session, session.currentQuestionIndex)
    IN  IF ~Truthy(currentQuestion) THEN Reply(r, rq, 400)
        ELSE /\ Len(session.answers) + Pending(rq.sessionId) < limit
             /\ Call(r, [rq EXCEPT !.currentQuestion = currentQuestion], "eval",
                     geminiProviders)
             /\ UNCHANGED <<interviewSessions, sessionData, aiResponse>>

SubmitRegular(r, rq) == SubmitRegularUpTo(r, rq, MaxAnswers)

\* POST /api/submit-answer, server.js:454-565
SubmitAnswerUpTo(r, sessionId, userAnswer, limit) ==
    /\ Free(r)
    /\ LET rq == [IdleReq EXCEPT !.kind = "submit", !.sessionId = sessionId,
                                 !.userAnswer = userAnswer]
       IN  IF sessionId = 0 \/ Len(userAnswer) = 0 THEN Reply(r, rq, 400)
           ELSE IF sessionId \notin interviewSessions THEN Reply(r, rq, 404)
           ELSE IF IsEndingInterview(userAnswer) THEN SubmitEnding(r, rq)
           ELSE SubmitRegularUpTo(r, rq, limit)

SubmitAnswer(r, sessionId, userAnswer) ==
    SubmitAnswerUpTo(r, sessionId, userAnswer, MaxAnswers)

\* server.js:565-644  the evaluation call has returned or thrown: parse or
\* fall back, store the answer, advance the index, ask for the next question.
\* aiResponse is a local of this handler (563); result.response is read from
\* the settled result, and a result that is undefined throws into the fallback.
SubmitAfterEval(r, c) ==
    LET rq == req[r]
        session == sessionData[rq.sessionId]
        text == IF Succeeded(c) THEN c.call.result.text
                ELSE FallbackEvaluationText(rq.userAnswer)
        evaluation == ParseEvaluation(text)
        record == [questionIndex |-> session.currentQuestionIndex,
                   question |-> rq.currentQuestion,
                   answer |-> rq.userAnswer,
                   evaluation |-> evaluation]
    IN  /\ sessionData' = [sessionData EXCEPT ![rq.sessionId] = StoreAnswer(session, record)]
        /\ Call(r, [rq EXCEPT !.evaluation = evaluation, !.aiResponse = text],
                "nextq", c.pool)
        /\ UNCHANGED <<interviewSessions, aiResponse>>

\* server.js:645-705  the next-question call has returned or thrown
SubmitAfterNextQ(r, c) ==
    \E randomOffset \in 0..2 :
        LET rq == req[r]
            session == sessionData[rq.sessionId]
            question == IF Succeeded(c) THEN c.call.result.text.plain
                        ELSE SmartQuestion(session, randomOffset)
        IN  /\ sessionData' = [sessionData EXCEPT ![rq.sessionId].questions = Append(@, question)]
            /\ interviewSessions' = interviewSessions \cup {rq.sessionId}
            /\ req' = [req EXCEPT ![r] =
                         [Response(rq, 200, rq.evaluation, question)
                            EXCEPT !.body.currentQuestion = session.currentQuestionIndex + 1]]
            /\ geminiProviders' = c.pool
            /\ UNCHANGED aiResponse

\* server.js:507-527  the summary call has returned or thrown
SubmitAfterSummary(r, c) ==
    /\ interviewSessions' = interviewSessions \cup {req[r].sessionId}
    /\ req' = [req EXCEPT ![r] =
                 [Response(req[r], 200, NoEvaluation, Undefined)
                    EXCEPT !.body.averageScore = req[r].body.averageScore,
                           !.body.totalQuestions =
                               Len(sessionData[req[r].sessionId].answers)]]
    /\ geminiProviders' = c.pool
    /\ UNCHANGED <<sessionData, aiResponse>>

\* POST /api/answer, server.js:353-441
Answer(r, sessionId, answer) ==
    /\ Free(r)
    /\ LET rq == [IdleReq EXCEPT !.kind = "answer", !.sessionId = sessionId,
                                 !.userAnswer = answer]
       IN  IF Len(answer) = 0 \/ sessionId = 0 THEN Reply(r, rq, 400)
           ELSE IF sessionId \notin interviewSessions THEN Reply(r, rq, 404)
           ELSE LET session == sessionData[sessionId]
                    record == [questionIndex |-> session.currentQuestionIndex,
                               question |-> QuestionAt(session, session.currentQuestionIndex),
                               answer |-> answer,
                               evaluation |-> NoEvaluation]
                    stored == StoreAnswer(session, record)
                    isComplete == stored.currentQuestionIndex >= Len(stored.questions)
                IN  /\ Len(session.answers) + Pending(sessionId) < MaxAnswers
                    /\ IF isComplete
                       THEN /\ sessionData' = [sessionData EXCEPT ![sessionId] =
                                                  [stored EXCEPT !.isComplete = TRUE]]
                            /\ Call(r, rq, "feedback", geminiProviders)
                            /\ UNCHANGED <<interviewSessions, aiResponse>>
                       ELSE /\ sessionData' = [sessionData EXCEPT ![sessionId] = stored]
                            /\ interviewSessions' = interviewSessions \cup {sessionId}
                            /\ req' = [req EXCEPT ![r] =
                                         [Response(rq, 200, NoEvaluation,
                                                   QuestionAt(stored, stored.currentQuestionIndex))
                                            EXCEPT !.body.currentQuestion =
                                                       stored.currentQuestionIndex + 1]]
                            /\ UNCHANGED <<geminiProviders, aiResponse>>

\* server.js:403-441  the feedback call has returned or thrown
AnswerAfterFeedback(r, c) ==
    /\ interviewSessions' = interviewSessions \cup {req[r].sessionId}
    /\ req' = [req EXCEPT ![r] =
                 [Response(req[r], 200, NoEvaluation, Undefined)
                    EXCEPT !.body.currentQuestion =
                               sessionData[req[r].sessionId].currentQuestionIndex]]
    /\ geminiProviders' = c.pool
    /\ UNCHANGED <<sessionData, aiResponse>>

\* The request stays suspended in its dispatcher call.
Suspend(r, c) ==
    /\ geminiProviders' = c.pool
    /\ req' = [req EXCEPT ![r].call = c.call]
    /\ UNCHANGED <<interviewSessions, sessionData, aiResponse>>

\* The dispatcher call of request r goes on to c: it is suspended again, or it
\* has returned or thrown and the handler goes on from its await.
Continue(r, c) ==
    IF c.call.phase \in {"provider", "delay"} THEN Suspend(r, c)
    ELSE CASE req[r].pc = "calling"   -> TestAiDone(r, c)
           [] req[r].pc = "questions" -> StartAfterCall(r, c)
           [] req[r].pc = "eval"      -> SubmitAfterEval(r, c)
           [] req[r].pc = "nextq"     -> SubmitAfterNextQ(r, c)
           [] req[r].pc = "summary"   -> SubmitAfterSummary(r, c)
           [] req[r].pc = "feedback"  -> AnswerAfterFeedback(r, c)

\* A provider call settles: generateContent resolves with text
ProviderSucceeds(r, text) ==
    /\ InCall(r)
    /\ req[r].call.phase = "provider"
    /\ Continue(r, OnProviderSuccess(geminiProviders, req[r].call, text))

\* A provider call settles: generateContent rejects with error
ProviderFails(r, error) ==
    /\ InCall(r)
    /\ req[r].call.phase = "provider"
    /\ Continue(r, OnProviderError(geminiProviders, req[r].call, error))

\* A backoff delay is over (setTimeout fires)
BackoffElapsed(r) ==
    /\ InCall(r)
    /\ req[r].call.phase = "delay"
    /\ Continue(r, OnDelayElapsed(geminiProviders, req[r].call))

----------------------------------------------------------------------------
(* Initial states *)

\* server.js:39-44  every provider starts with isExhausted false
InitialPool(n) == [i \in 1..n |-> [isExhausted |-> FALSE]]

InitCommon ==
    /\ interviewSessions = {}
    /\ sessionData = <<>>
    /\ aiResponse = PlainText("")
    /\ req = [r \in ReqIds |-> IdleReq]
    /\ hist = NoHist
    /\ retry = NoRetry
    /\ clock = [now |-> 0, sweptAt |-> 0]
    /\ probe = NoProbe

InitPool ==
    /\ \E n \in 1..NumProviders : geminiProviders = InitialPool(n)
    /\ InitCommon

InitConc ==
    /\ \E n \in 1..ConcProviders : geminiProviders = InitialPool(n)
    /\ InitCommon

TestTexts == {HelloText, PlainText("working")}

InitSessions ==
    /\ geminiProviders = InitialPool(SessionProviders)
    /\ InitCommon

----------------------------------------------------------------------------
(* The interview: start-interview, submit-answer and /api/answer requests, *)
(* concurrently.                                                            *)

\* One error of each class the retry executor and the dispatcher tell apart.
ConcErrors ==
    { [status |-> 429, message |-> {}],
      [status |-> 503, message |-> {}],
      [status |-> 500, message |-> {}] }

Resumes == {"resume A"}

ShortAnswer == <<"i", " ", "l", "i", "k", "e", " ",
                "t", "e", "a", "m", "w", "o", "r", "k">>
ThankYou    == <<"t", "h", "a", "n", "k", " ", "y", "o", "u">>

\* Bodies of POST /api/submit-answer and of POST /api/answer
UserAnswers == {NoAnswer, ShortAnswer, ThankYou}
Answers     == {NoAnswer, ShortAnswer}

\* 0 stands for a missing sessionId, MaxSessions + 1 for an unknown one
SessionIdInputs == 0..(MaxSessions + 1)

\* Evaluation outputs of a provider: scores -5, 0, 7, 15, 7.5 and a word, an
\* object without score, one without feedback, one without idealAnswer, and a
\* text that is no JSON.
EvaluationTexts ==
    { ObjectText(JsonNumber(-50), TRUE, TRUE),
      ObjectText(JsonNumber(0), TRUE, TRUE),
      ObjectText(JsonNumber(70), TRUE, TRUE),
      ObjectText(JsonNumber(150), TRUE, TRUE),
      ObjectText(JsonNumber(75), TRUE, TRUE),
      ObjectText(JsonWord, TRUE, TRUE),
      ObjectText(NoScore, TRUE, TRUE),
      ObjectText(JsonNumber(80), FALSE, TRUE),
      ObjectText(JsonNumber(80), TRUE, FALSE),
      PlainText("no json") }

\* The texts a provider may answer the prompt of the call site with
Responses(pc) ==
    CASE pc = "questions" -> {ArrayText(<<"Q1">>), PlainText("no json")}
      [] pc = "eval"      -> EvaluationTexts
      [] pc = "nextq"     -> {PlainText("Q2")}
      [] pc = "calling"   -> TestTexts
      [] OTHER            -> {PlainText("well done")}

\* One well-formed text for each call site
ExpectedResponse(pc) ==
    CASE pc = "questions" -> ArrayText(<<"Q1">>)
      [] pc = "eval"      -> ObjectText(JsonNumber(70), TRUE, TRUE)
      [] pc = "nextq"     -> PlainText("Q2")
      [] pc = "calling"   -> HelloText
      [] OTHER            -> PlainText("well done")

\* Requests of all three routes arrive while others are suspended.
Next ==
    \/ \E r \in ReqIds : \E resume \in Resumes \cup {""} :
          Started < MaxSessions /\ StartInterview(r, resume) /\ UNCHANGED <<hist, retry, clock, probe>>
    \/ \E r \in ReqIds : StartParse(r) /\ UNCHANGED <<hist, retry, clock, probe>>
    \/ \E r \in ReqIds : \E sessionId \in SessionIdInputs :
          \E userAnswer \in UserAnswers :
             SubmitAnswer(r, sessionId, userAnswer) /\ UNCHANGED <<hist, retry, clock, probe>>
    \/ \E r \in ReqIds : \E sessionId \in SessionIdInputs :
          \E answer \in Answers :
             Answer(r, sessionId, answer) /\ UNCHANGED <<hist, retry, clock, probe>>
    \/ \E r \in ReqIds : \E error \in ConcErrors :
          ProviderFails(r, error) /\ UNCHANGED <<hist, retry, clock, probe>>
    \/ \E r \in ReqIds :
          ProviderSucceeds(r, ExpectedResponse(req[r].pc)) /\ UNCHANGED <<hist, retry, clock, probe>>
    \/ \E r \in ReqIds : BackoffElapsed(r) /\ UNCHANGED <<hist, retry, clock, probe>>

Spec == InitSessions /\ [][Next]_vars

\* One request at a time, and every text a provider may answer with.
NextOne ==
    \/ \E resume \in Resumes \cup {""} :
          Started < MaxSessions /\ StartInterview(1, resume) /\ UNCHANGED <<hist, retry, clock, probe>>
    \/ StartParse(1) /\ UNCHANGED <<hist, retry, clock, probe>>
    \/ \E sessionId \in SessionIdInputs : \E userAnswer \in UserAnswers :
          SubmitAnswer(1, sessionId, userAnswer) /\ UNCHANGED <<hist, retry, clock, probe>>
    \/ \E sessionId \in SessionIdInputs : \E answer \in Answers :
          Answer(1, sessionId, answer) /\ UNCHANGED <<hist, retry, clock, probe>>
    \/ \E error \in ConcErrors : ProviderFails(1, error) /\ UNCHANGED <<hist, retry, clock, probe>>
    \/ \E text \in Responses(req[1].pc) :
          ProviderSucceeds(1, text) /\ UNCHANGED <<hist, retry, clock, probe>>
    \/ BackoffElapsed(1) /\ UNCHANGED <<hist, retry, clock, probe>>

SpecOne == InitSessions /\ [][NextOne]_vars

----------------------------------------------------------------------------
(* Start-interview requests alone, overlapping.                            *)

MaxStarts == 2          \* sessions created in a run

StartResumes == {"resume A", "resume B"}

QuestionFor(resume) ==
    IF resume = "resume A" THEN "Q1 about resume A" ELSE "Q1 about resume B"

\* What a provider may answer the interview prompt of a resume with: one
\* question, an empty array, or a text that is no JSON
StartTexts(resume) ==
    {ArrayText(<<QuestionFor(resume)>>), ArrayText(<<>>), PlainText("no json")}

NextStart ==
    \/ \E r \in ReqIds : \E resume \in StartResumes \cup {""} :
          Started < MaxStarts /\ StartInterview(r, resume) /\ UNCHANGED <<hist, retry, clock, probe>>
    \/ \E r \in ReqIds : StartParse(r) /\ UNCHANGED <<hist, retry, clock, probe>>
    \/ \E r \in ReqIds : \E error \in ConcErrors :
          ProviderFails(r, error) /\ UNCHANGED <<hist, retry, clock, probe>>
    \/ \E r \in ReqIds : \E text \in StartTexts(req[r].resume) :
          ProviderSucceeds(r, text) /\ UNCHANGED <<hist, retry, clock, probe>>
    \/ \E r \in ReqIds : BackoffElapsed(r) /\ UNCHANGED <<hist, retry, clock, probe>>

SpecStart == InitSessions /\ [][NextStart]_vars

----------------------------------------------------------------------------
(* The expiry sweep, with sessions starting and ending while time passes.  *)

OneHour == 3600000      \* 60 * 60 * 1000 ms, server.js:742 and 749
TenMinutes == 600000

MaxClock == 10800000    \* the clock stops after three hours

\* How far Date.now() moves between two steps: 10 minutes, 50 minutes, 1 hour
TickSteps == {TenMinutes, 5 * TenMinutes, OneHour}

\* A sweep that also removes a session exactly one hour old.
ExpiredAtOneHour(session, now) ==
    session.startTime <= now - OneHour

\* server.js:742-744  sessionData.startTime < oneHourAgo
Expired(session, now) ==
    session.startTime < now - OneHour

\* Time passes.
Tick(d) ==
    /\ clock.now + d <= MaxClock
    /\ clock' = [clock EXCEPT !.now = clock.now + d]
    /\ UNCHANGED <<geminiProviders, interviewSessions, sessionData, aiResponse,
                   req, hist, retry, probe>>

\* server.js:741-749  the callback of setInterval: it runs no sooner than one
\* hour after the previous run (the first, after the start of the server) and
\* deletes the expired sessions from the map; the session objects are untouched
Sweep ==
    /\ clock.now - clock.sweptAt >= OneHour
    /\ interviewSessions' =
          {sessionId \in interviewSessions :
              ~Expired(sessionData[sessionId], clock.now)}
    /\ clock' = [clock EXCEPT !.sweptAt = clock.now]
    /\ UNCHANGED <<geminiProviders, sessionData, aiResponse, req, hist,
                   retry, probe>>

\* Sessions are started, and ended with "thank you", one request at a time.
NextSweep ==
    \/ Started < MaxStarts /\ StartInterview(1, "resume A")
          /\ UNCHANGED <<hist, retry, clock, probe>>
    \/ StartParse(1) /\ UNCHANGED <<hist, retry, clock, probe>>
    \/ \E sessionId \in 1..MaxStarts :
          SubmitAnswer(1, sessionId, ThankYou) /\ UNCHANGED <<hist, retry, clock, probe>>
    \/ \E error \in ConcErrors : ProviderFails(1, error) /\ UNCHANGED <<hist, retry, clock, probe>>
    \/ ProviderSucceeds(1, ExpectedResponse(req[1].pc)) /\ UNCHANGED <<hist, retry, clock, probe>>
    \/ BackoffElapsed(1) /\ UNCHANGED <<hist, retry, clock, probe>>
    \/ \E d \in TickSteps : Tick(d)
    \/ Sweep

SpecSweep == InitSessions /\ [][NextSweep]_vars

\* One session is started, answered and ended while time passes and the sweep
\* runs between the steps of its requests.
NextExpiry ==
    \/ Started < MaxSessions /\ StartInterview(1, "resume A")
          /\ UNCHANGED <<hist, retry, clock, probe>>
    \/ StartParse(1) /\ UNCHANGED <<hist, retry, clock, probe>>
    \/ \E sessionId \in 1..MaxSessions : \E userAnswer \in {ShortAnswer, ThankYou} :
          SubmitAnswer(1, sessionId, userAnswer) /\ UNCHANGED <<hist, retry, clock, probe>>
    \/ \E error \in ConcErrors : ProviderFails(1, error) /\ UNCHANGED <<hist, retry, clock, probe>>
    \/ ProviderSucceeds(1, ExpectedResponse(req[1].pc)) /\ UNCHANGED <<hist, retry, clock, probe>>
    \/ BackoffElapsed(1) /\ UNCHANGED <<hist, retry, clock, probe>>
    \/ \E d \in {5 * TenMinutes, OneHour} : Tick(d)
    \/ Sweep

SpecExpiry == InitSessions /\ [][NextExpiry]_vars

----------------------------------------------------------------------------
(* Answers of several lengths, with and without the words of the            *)
(* hasExamples pattern, while evaluation calls fail.                        *)

DetailedLength == 100   \* server.js:573  answerLength > 100
LongLength == 200       \* server.js:578  answerLength > 200

\* n characters that belong to no word of the pattern
Padding(n) == [i \in 1..n |-> "x"]

\* The text, filled up to n characters
PadTo(text, n) == text \o Padding(n - Len(text))

Led == <<"L", "e", "d">>
Handled == <<"h", "a", "n", "d", "l", "e", "d">>

\* Answers of 3, 7, 15, 100, 101, 200 and 201 characters
FallbackAnswers ==
    { Led, Handled, ShortAnswer,
      Padding(DetailedLength), PadTo(Led, DetailedLength),
      Padding(DetailedLength + 1), PadTo(Led, DetailedLength + 1),
      Padding(LongLength), PadTo(Led, LongLength),
      Padding(LongLength + 1), PadTo(Led, LongLength + 1) }

\* One session; every call may fail or succeed.
NextFallback ==
    \/ Started < MaxSessions /\ StartInterview(1, "resume A")
          /\ UNCHANGED <<hist, retry, clock, probe>>
    \/ StartParse(1) /\ UNCHANGED <<hist, retry, clock, probe>>
    \/ \E userAnswer \in FallbackAnswers :
          SubmitAnswer(1, 1, userAnswer) /\ UNCHANGED <<hist, retry, clock, probe>>
    \/ \E error \in ConcErrors : ProviderFails(1, error) /\ UNCHANGED <<hist, retry, clock, probe>>
    \/ ProviderSucceeds(1, ExpectedResponse(req[1].pc)) /\ UNCHANGED <<hist, retry, clock, probe>>
    \/ BackoffElapsed(1) /\ UNCHANGED <<hist, retry, clock, probe>>

SpecFallback == InitSessions /\ [][NextFallback]_vars

----------------------------------------------------------------------------
(* One interview as the README describes it: a start, then answers until   *)
(* the session holds five.                                                  *)

ReadmeQuestions == 5    \* README.md:66, 78 and 112

FiveQuestions == <<"Q1", "Q2", "Q3", "Q4", "Q5">>

\* What a provider answers the call of request rq with: five questions, one,
\* or one that is the empty string; an evaluation with score 7 or 8; a next
\* question or the empty text; the expected text
ReadmeTexts(rq) ==
    CASE rq.pc = "questions" -> {ArrayText(FiveQuestions), ArrayText(<<"Q1">>),
                                 ArrayText(<<"">>)}
      [] rq.pc = "eval"      -> {ObjectText(JsonNumber(70), TRUE, TRUE),
                                 ObjectText(JsonNumber(80), TRUE, TRUE)}
      [] rq.pc = "nextq"     -> {PlainText("Q2"), PlainText("")}
      [] OTHER               -> {ExpectedResponse(rq.pc)}

\* The call for the questions may fail; the other calls succeed.
NextReadme ==
    \/ Started < MaxSessions /\ StartInterview(1, "resume A")
          /\ UNCHANGED <<hist, retry, clock, probe>>
    \/ StartParse(1) /\ UNCHANGED <<hist, retry, clock, probe>>
    \/ \E userAnswer \in {ShortAnswer, ThankYou} :
          SubmitAnswerUpTo(1, 1, userAnswer, ReadmeQuestions)
             /\ UNCHANGED <<hist, retry, clock, probe>>
    \/ \E error \in ConcErrors :
          req[1].pc = "questions" /\ ProviderFails(1, error)
             /\ UNCHANGED <<hist, retry, clock, probe>>
    \/ \E text \in ReadmeTexts(req[1]) :
          ProviderSucceeds(1, text) /\ UNCHANGED <<hist, retry, clock, probe>>
    \/ BackoffElapsed(1) /\ UNCHANGED <<hist, retry, clock, probe>>

SpecReadme == InitSessions /\ [][NextReadme]_vars

----------------------------------------------------------------------------
(* GET /api/session/:sessionId, while sessions of two resumes are started, *)
(* answered and ended.                                                      *)

\* MaxStarts + 1 stands for an unknown session id
GetIds == 1..(MaxStarts + 1)

\* What a provider answers the call of request rq with: a question about the
\* resume, an evaluation with score 7 or 8, or the expected text
GetTexts(rq) ==
    CASE rq.pc = "questions" -> {ArrayText(<<QuestionFor(rq.resume)>>)}
      [] rq.pc = "eval"      -> {ObjectText(JsonNumber(70), TRUE, TRUE),
                                 ObjectText(JsonNumber(80), TRUE, TRUE)}
      [] OTHER               -> {ExpectedResponse(rq.pc)}

\* Slot 1 drives the sessions, slot 2 reads them.
NextGet ==
    \/ \E resume \in StartResumes :
          Started < MaxStarts /\ StartInterview(1, resume)
             /\ UNCHANGED <<hist, retry, clock, probe>>
    \/ StartParse(1) /\ UNCHANGED <<hist, retry, clock, probe>>
    \/ \E sessionId \in 1..MaxStarts : \E userAnswer \in {ShortAnswer, ThankYou} :
          SubmitAnswer(1, sessionId, userAnswer) /\ UNCHANGED <<hist, retry, clock, probe>>
    \/ \E text \in GetTexts(req[1]) :
          ProviderSucceeds(1, text) /\ UNCHANGED <<hist, retry, clock, probe>>
    \/ \E sessionId \in GetIds :
          GetSession(2, sessionId) /\ UNCHANGED <<hist, retry, clock, probe>>
    \/ clock.now < OneHour /\ Tick(OneHour)

SpecGet == InitSessions /\ [][NextGet]_vars

----------------------------------------------------------------------------
(* The dispatcher alone, with concurrent calls: GET /test-ai requests.     *)

NextConc ==
    \/ \E r \in ReqIds : TestAi(r) /\ UNCHANGED <<hist, retry, clock, probe>>
    \/ \E r \in ReqIds : \E error \in ConcErrors : ProviderFails(r, error) /\ UNCHANGED <<hist, retry, clock, probe>>
    \/ \E r \in ReqIds : ProviderSucceeds(r, HelloText) /\ UNCHANGED <<hist, retry, clock, probe>>
    \/ \E r \in ReqIds : BackoffElapsed(r) /\ UNCHANGED <<hist, retry, clock, probe>>

SpecConc == InitConc /\ [][NextConc]_vars

----------------------------------------------------------------------------
(* The dispatcher alone, one call at a time, with the history of the call. *)

SeqRequest ==
    /\ TestAi(1)
    /\ hist' = HistStart(geminiProviders, req'[1].call)
    /\ UNCHANGED <<retry, clock, probe>>

SeqProviderFails ==
    \E error \in ProviderErrors :
        /\ ProviderFails(1, error)
        /\ hist' = HistFailure(hist, req[1].call, req'[1].call, error)
        /\ UNCHANGED <<retry, clock, probe>>

SeqProviderSucceeds ==
    \E text \in TestTexts :
        /\ ProviderSucceeds(1, text)
        /\ hist' = HistSuccess(hist, req[1].call, text)
        /\ UNCHANGED <<retry, clock, probe>>

SeqBackoffElapsed ==
    /\ BackoffElapsed(1)
    /\ hist' = HistInvoked(hist, req[1].call, req'[1].call)
    /\ UNCHANGED <<retry, clock, probe>>

NextSeq == SeqRequest \/ SeqProviderFails \/ SeqProviderSucceeds \/ SeqBackoffElapsed

SpecSeq == InitPool /\ [][NextSeq]_vars

----------------------------------------------------------------------------
(* retryApiCall alone: one call, for each attempt limit and each outcome of *)
(* every invocation of its apiFunction.                                     *)

MaxRetriesInput == 3    \* largest attempt limit passed (the default of server.js:116)

Delays == {DefaultDelay, 500}

\* The errors of ProviderErrors and two that carry no status.
OperationErrors ==
    ProviderErrors \cup { [status |-> 0, message |-> {}],
                          [status |-> 0, message |-> {"fetch failed"}] }

OperationValues == {"result A", "result B"}

RetryApiCall ==
    /\ retry.phase = "idle"
    /\ \E maxRetries \in 1..MaxRetriesInput : \E delay \in Delays :
          retry' = RetryCall(maxRetries, delay)
    /\ UNCHANGED <<geminiProviders, interviewSessions, sessionData, aiResponse, req, hist,
                 clock, probe>>

OperationSucceeds ==
    /\ retry.phase = "invoking"
    /\ \E value \in OperationValues : retry' = RetryReturn(retry, value)
    /\ UNCHANGED <<geminiProviders, interviewSessions, sessionData, aiResponse, req, hist,
                 clock, probe>>

OperationFails ==
    /\ retry.phase = "invoking"
    /\ \E error \in OperationErrors : retry' = RetryCatch(retry, error)
    /\ UNCHANGED <<geminiProviders, interviewSessions, sessionData, aiResponse, req, hist,
                 clock, probe>>

RetryDelayElapsed ==
    /\ retry.phase = "waiting"
    /\ retry' = RetryAfterWait(retry)
    /\ UNCHANGED <<geminiProviders, interviewSessions, sessionData, aiResponse, req, hist,
                 clock, probe>>

NextRetry == RetryApiCall \/ OperationSucceeds \/ OperationFails \/ RetryDelayElapsed

SpecRetry == InitSessions /\ [][NextRetry]_vars

----------------------------------------------------------------------------
(* The termination check alone, on texts typed by the user.                *)

PatternBases ==
    { <<"t", "h", "a", "n", "k", " ", "y", "o", "u">>,
      <<"T", "h", "a", "n", "k", "s">>,
      <<"b", "y", "e">>,
      <<"d", "o", "n", "e">>,
      <<"S", "T", "O", "P">>,
      <<"t", "h", "a", "n", "k", " ", "y", "o", "u", " ", "v", "e", "r", "y", " ", "m", "u", "c", "h", " ", "f", "o", "r", " ", "t", "h", "e", " ", "o", "p", "p", "o", "r", "t", "u", "n", "i", "t", "y">>,
      <<"T", "h", "a", "n", "k", " ", " ", "Y", "o", "u">>,
      <<"t", "h", "a", "n", "k", "y", "o", "u">>,
      <<"T", "H", "X">>,
      <<"G", "o", "o", "d", "b", "y", "e">>,
      <<"e", "n", "d">>,
      <<"F", "i", "n", "i", "s", "h">>,
      <<"t", "h", "a", "t", "'", "s", " ", "a", "l", "l">>,
      <<"o", "k", " ", "b", "y", "e">>,
      <<"s", "t", "o", "p", "p", "e", "d">>,
      <<"h", "e", "l", "l", "o">>,
      <<"t", "h", "a", "n", "k">>,
      <<"b", "y", "e", " ", "b", "y", "e">> }

LeftPads == {<<>>, <<" ">>}

RightPads == {<<>>, <<" ">>, <<"\n">>, <<"!">>, <<".">>}

PatternInputs ==
    {l \o b \o t : l \in LeftPads, b \in PatternBases, t \in RightPads}

TypeAnswer ==
    /\ \E userAnswer \in PatternInputs :
          probe' = [NoProbe EXCEPT !.userAnswer = userAnswer]
    /\ UNCHANGED <<geminiProviders, interviewSessions, sessionData, aiResponse, req, hist,
                   retry, clock>>

TestAnswer ==
    /\ ~probe.tested
    /\ probe' = [probe EXCEPT !.tested = TRUE,
                              !.isEndingInterview = IsEndingInterview(probe.userAnswer)]
    /\ UNCHANGED <<geminiProviders, interviewSessions, sessionData, aiResponse, req, hist,
                   retry, clock>>

NextPattern == TypeAnswer \/ TestAnswer

SpecPattern == InitSessions /\ [][NextPattern]_vars

----------------------------------------------------------------------------
(* Claims about the dispatcher, one call at a time (SpecSeq) *)

Call1 == req[1].call

PoolSize == Len(geminiProviders)

\* The providers the call passed over at its start: flagged, and not reset.
PassedOver == IF hist.startExhausted = 1..PoolSize THEN {} ELSE hist.startExhausted

NonDecreasing(s) == \A i \in 1..(Len(s) - 1) : s[i] <= s[i + 1]

\* The call started with no flag set, the first k providers failed with quota
\* errors and provider k+1 succeeded.
FailoverCase(k) ==
    /\ Call1.phase = "returned"
    /\ hist.startExhausted = {}
    /\ hist.failed = 1..k
    /\ hist.quotaFailed = 1..k
    /\ hist.okFrom = k + 1

\* C1: starting with no provider flagged, when the first k providers fail with
\* quota errors and provider k+1 succeeds, the call returns provider k+1's
\* result and exactly the first k providers are flagged exhausted.
C1_Failover ==
    \A k \in 0..NumProviders :
        FailoverCase(k) =>
            /\ Call1.result = [defined |-> TRUE, from |-> k + 1, text |-> hist.okText]
            /\ Flagged(geminiProviders) = 1..k

C1_Witness == FailoverCase(2) /\ PoolSize = 3

\* The step is the start of a dispatcher call of slot 1.
CallStarts == Free(1) /\ req'[1].pc = "calling"

\* C2: a call that starts with every provider of a non-empty pool flagged
\* clears all flags, then attempts the providers in pool order from the first;
\* it never throws without having attempted a provider.
C2_AllExhaustedReset ==
    /\ [][(CallStarts /\ Flagged(geminiProviders) = 1..PoolSize) =>
            /\ Flagged(geminiProviders') = {}
            /\ req'[1].call.providersToTry = AllProviders(geminiProviders)
            /\ req'[1].call.phase = "provider"
            /\ req'[1].call.pos = 1
            /\ req'[1].call.attempt = 1
            /\ hist'.invoked = <<1>>]_vars
    /\ [](hist.startExhausted = 1..PoolSize =>
            /\ NonDecreasing(hist.invoked)
            /\ hist.invoked # <<>>
            /\ \A p \in 1..PoolSize :
                   (\E i \in 1..Len(hist.invoked) : hist.invoked[i] = p) =>
                       \A q \in 1..(p - 1) : q \in hist.failed)

C2_Witness ==
    /\ PoolSize = 3
    /\ hist.startExhausted = {1, 2, 3}
    /\ Call1.phase = "threw"
    /\ hist.failed = {1, 2, 3}

\* C7: providers are attempted in configuration order, a provider only after
\* every earlier provider has failed in this call or was passed over as
\* exhausted, and the first success ends the call with that provider's result.
C7_OrderFirstSuccess ==
    /\ NonDecreasing(hist.invoked)
    /\ Call1.phase \in {"provider", "delay"} =>
          /\ hist.invoked[Len(hist.invoked)] = CurrentProvider(Call1)
          /\ \A q \in 1..(CurrentProvider(Call1) - 1) :
                 q \in hist.failed \/ q \in PassedOver
    /\ Call1.phase = "returned" =>
          /\ hist.okFrom = hist.invoked[Len(hist.invoked)]
          /\ hist.okFrom \notin hist.failed
          /\ Call1.result = [defined |-> TRUE, from |-> hist.okFrom, text |-> hist.okText]

C7_Witness ==
    /\ Call1.phase = "returned"
    /\ hist.okFrom = 3
    /\ hist.invoked = <<1, 1, 2, 3>>
    /\ hist.quotaFailed = {2}

\* C8: the call throws only the aggregate error, never a provider's error,
\* and only when every provider was passed over as exhausted or was attempted
\* and failed in this call.
C8_OnlyAggregate ==
    /\ Call1.error \notin ProviderErrors
    /\ Call1.phase = "threw" =>
          /\ Call1.error = AggregateError
          /\ req[1].status = 500
          /\ \A p \in 1..PoolSize : p \in hist.failed \/ p \in PassedOver
    /\ Call1.phase # "threw" => Call1.error = NoError

C8_Witness ==
    /\ Call1.phase = "threw"
    /\ PoolSize = 3
    /\ PassedOver = {1}
    /\ hist.failed = {2, 3}
    /\ hist.quotaFailed = {2}

\* The step settles the provider call the request of slot 1 is waiting for.
ProviderSettles == req[1].pc = "calling" /\ Call1.phase = "provider" /\ req'[1] # req[1]

\* C9: a flag turns true only when the call to that provider failed with a
\* quota error, turns false only in the reset at the start of a call that finds
\* every provider exhausted (all flags at once); a success or a non-quota
\* failure changes no flag.
C9_FlagChanges ==
    [][/\ \A p \in 1..PoolSize :
            /\ (~geminiProviders[p].isExhausted /\ geminiProviders'[p].isExhausted) =>
                  /\ ProviderSettles
                  /\ CurrentProvider(Call1) = p
                  /\ QuotaClass(hist'.lastError)
                  /\ hist'.quotaFailed = hist.quotaFailed \cup {p}
                  /\ req'[1].call.phase # "returned"
            /\ (geminiProviders[p].isExhausted /\ ~geminiProviders'[p].isExhausted) =>
                  /\ CallStarts
                  /\ Flagged(geminiProviders) = 1..PoolSize
                  /\ Flagged(geminiProviders') = {}
       /\ (ProviderSettles /\ req'[1].call.phase = "returned") =>
              geminiProviders' = geminiProviders
       /\ (ProviderSettles /\ req'[1].call.phase # "returned"
                           /\ ~QuotaClass(hist'.lastError)) =>
              geminiProviders' = geminiProviders]_vars

C9_Witness ==
    /\ PoolSize = 3
    /\ hist.startExhausted = {1, 2, 3}
    /\ 1 \in hist.failed \ hist.quotaFailed
    /\ Flagged(geminiProviders) = {2}

\* The step ends the retries of the current provider with a non-quota error.
RetriesEndNonQuota ==
    /\ Call1.phase = "provider"
    /\ hist'.failed # hist.failed
    /\ ~QuotaClass(hist'.lastError)

\* The candidates after the current one that are not flagged exhausted
LaterCandidates ==
    {k \in (Call1.pos + 1)..Len(Call1.providersToTry) :
        ~geminiProviders[Call1.providersToTry[k]].isExhausted}

\* C15: when the retries of a provider end with a non-quota error, the call
\* goes on with the next candidate that is not flagged, whether or not the
\* failed provider is the last of the list, and throws only when none is
\* left; a call that returns after such a failure returns the result of the
\* provider that succeeded.
C15_NonQuotaFailover ==
    /\ [][RetriesEndNonQuota =>
            IF LaterCandidates # {}
            THEN LET k == CHOOSE k \in LaterCandidates :
                              \A j \in LaterCandidates : k <= j
                 IN  /\ req'[1].call.phase = "provider"
                     /\ req'[1].call.pos = k
                     /\ req'[1].call.attempt = 1
                     /\ hist'.invoked = Append(hist.invoked, Call1.providersToTry[k])
                     /\ geminiProviders' = geminiProviders
            ELSE req'[1].call.phase = "threw"]_vars
    /\ [](Call1.phase = "returned" /\ hist.failed \ hist.quotaFailed # {} =>
            /\ hist.okFrom \notin hist.failed
            /\ \A q \in 1..(hist.okFrom - 1) : q \in hist.failed \/ q \in PassedOver
            /\ Call1.result = [defined |-> TRUE, from |-> hist.okFrom,
                                text |-> hist.okText])

\* Provider 1 of three, not the last, failed twice with overload errors and
\* provider 2 succeeded; no provider is flagged.
C15_Witness ==
    /\ PoolSize = 3
    /\ Call1.phase = "returned"
    /\ hist.startExhausted = {}
    /\ hist.invoked = <<1, 1, 2>>
    /\ hist.failed = {1}
    /\ hist.quotaFailed = {}
    /\ hist.okFrom = 2
    /\ Flagged(geminiProviders) = {}

----------------------------------------------------------------------------
(* Claims about concurrent dispatcher calls (SpecConc) *)

\* The step is one in which the request of slot r invokes a provider (a first
\* attempt or a retry): afterwards it waits for a provider call it was not
\* waiting for before.
InvocationBy(r) ==
    /\ req'[r].pc = "calling"
    /\ req'[r].call.phase = "provider"
    /\ \/ req[r].pc # "calling"
       \/ req[r].call.phase # "provider"
       \/ req[r].call.pos # req'[r].call.pos

InvokedUnflagged(r) ==
    ~geminiProviders'[CurrentProvider(req'[r].call)].isExhausted

\* C10 as claimed: no provider is invoked, on a first attempt or on a retry,
\* while its exhausted flag is true.
C10_NeverInvokedWhileExhausted ==
    [][\A r \in ReqIds : InvocationBy(r) => InvokedUnflagged(r)]_vars

\* C10 as amended: no provider is invoked on the first attempt of its retry
\* executor while its exhausted flag is true, whatever the interleaving of the
\* concurrent calls (a retry after a backoff delay does not test the flag).
C10_FirstAttemptUnflagged ==
    [][\A r \in ReqIds :
          (InvocationBy(r) /\ req'[r].call.attempt = 1) => InvokedUnflagged(r)]_vars

\* A call on its first attempt of provider 2, after provider 1 was flagged,
\* while another call is in the backoff delay of its attempt of provider 1.
C10_Witness ==
    \E r \in ReqIds : \E r2 \in ReqIds \ {r} :
        /\ req[r].pc = "calling"
        /\ req[r].call.phase = "provider"
        /\ req[r].call.attempt = 1
        /\ req[r].call.providersToTry = <<1, 2>>
        /\ req[r].call.pos = 2
        /\ geminiProviders[1].isExhausted
        /\ ~geminiProviders[2].isExhausted
        /\ req[r2].pc = "calling"
        /\ req[r2].call.phase = "delay"
        /\ CurrentProvider(req[r2].call) = 1

----------------------------------------------------------------------------
(* Claims about the sessions *)

SessionIds == 1..Len(sessionData)

\* C3: in every session the number of stored answers equals
\* currentQuestionIndex, in every state and so after every successful
\* submit-answer, whatever requests overlap on the session.
C3_AnswersMatchIndex ==
    \A s \in SessionIds :
        Len(sessionData[s].answers) = sessionData[s].currentQuestionIndex

\* Two submit-answer requests overlapped on one session: both captured the
\* same current question, one has been answered with success and the other is
\* suspended on its next-question call.
C3_Witness ==
    \E r1, r2 \in ReqIds :
        /\ r1 # r2
        /\ req[r1].kind = "submit" /\ req[r1].pc = "responded" /\ req[r1].status = 200
        /\ req[r1].evaluation.present
        /\ req[r2].kind = "submit" /\ req[r2].pc = "nextq"
        /\ req[r2].sessionId = req[r1].sessionId
        /\ LET session == sessionData[req[r1].sessionId]
           IN  /\ Len(session.answers) = 2
               /\ session.answers[1].question = session.answers[2].question

\* C4: in every session currentQuestionIndex never exceeds the number of
\* questions.
C4_IndexWithinQuestions ==
    \A s \in SessionIds :
        sessionData[s].currentQuestionIndex <= Len(sessionData[s].questions)

IsIntegerScore(score) ==
    /\ ~score.nan
    /\ score.tenths % 10 = 0
    /\ score.tenths >= 10
    /\ score.tenths <= 100

\* C5: the score of every evaluation stored in a session, held for the
\* response or returned by submit-answer is an integer from 1 to 10.
C5_ScoreIntegerInRange ==
    /\ \A s \in SessionIds : \A i \in 1..Len(sessionData[s].answers) :
          sessionData[s].answers[i].evaluation.present
             => IsIntegerScore(sessionData[s].answers[i].evaluation.score)
    /\ \A r \in ReqIds :
          req[r].kind = "submit" /\ req[r].evaluation.present
             => IsIntegerScore(req[r].evaluation.score)

\* C6: a start-interview request with a resume, and a submit-answer request
\* on a stored session that has a current question, are answered with success
\* whatever their dispatcher calls do, and a submit-answer request that is
\* evaluated stores one answer, advances the index by one and appends one
\* question.
C6_FallbackSucceeds ==
    [][\A r \in ReqIds :
          /\ /\ req[r].kind \in {"start", "submit"}
             /\ InCall(r) \/ req[r].pc = "parse"
             /\ req'[r].pc = "responded"
             => req'[r].status = 200
          /\ (\E sessionId \in interviewSessions :
                \E userAnswer \in UserAnswers \ {NoAnswer} :
                   /\ Truthy(QuestionAt(sessionData[sessionId],
                                        sessionData[sessionId].currentQuestionIndex))
                   /\ SubmitAnswer(r, sessionId, userAnswer)
                   /\ req'[r].pc = "responded")
             => req'[r].status = 200
          /\ req[r].pc = "eval" /\ req'[r].pc # "eval"
             => LET old == sessionData[req[r].sessionId]
                    new == sessionData'[req[r].sessionId]
                IN  /\ Len(new.answers) = Len(old.answers) + 1
                    /\ new.currentQuestionIndex = old.currentQuestionIndex + 1
          /\ req[r].pc = "nextq" /\ req'[r].pc = "responded"
             => Len(sessionData'[req[r].sessionId].questions)
                   = Len(sessionData[req[r].sessionId].questions) + 1
      ]_vars

----------------------------------------------------------------------------
(* Claims about retryApiCall (SpecRetry) *)

\* The classes of server.js:124 and 130, the quota test coming first
OverloadClass(error) == IsOverloadError(error) /\ ~IsQuotaError(error)
OtherClass(error) == ~IsOverloadError(error) /\ ~IsQuotaError(error)

\* C11: a quota error of the operation, on whichever attempt, is the last
\* failure of the call: the call has thrown that error, the operation has not
\* been invoked again and no delay follows the failure.
C11_QuotaRethrown ==
    \A i \in 1..Len(retry.failures) :
        IsQuotaError(retry.failures[i]) =>
            /\ i = Len(retry.failures)
            /\ retry.phase = "threw"
            /\ retry.error = retry.failures[i]
            /\ retry.invocations = i
            /\ Len(retry.waits) = i - 1

\* A quota error on the second attempt, after an error of another class
C11_Witness ==
    /\ retry.phase = "threw"
    /\ retry.maxRetries = 3
    /\ Len(retry.failures) = 2
    /\ OtherClass(retry.failures[1])
    /\ IsQuotaError(retry.failures[2])
    /\ retry.waits = <<retry.delay>>

\* C12: after the first overload error of the operation, when an attempt is
\* left, the call waits 5000 ms and invokes the operation once more and no
\* further time, and throws the error of that retry if it fails.
C12_OverloadRetriedOnce ==
    \A i \in 1..Len(retry.failures) :
        ( /\ OverloadClass(retry.failures[i])
          /\ \A j \in 1..(i - 1) : ~OverloadClass(retry.failures[j])
          /\ i < retry.maxRetries )
        => /\ Len(retry.waits) >= i
           /\ retry.waits[i] = OverloadWait
           /\ retry.invocations <= i + 1
           /\ Len(retry.failures) > i =>
                 /\ retry.phase = "threw"
                 /\ retry.error = retry.failures[i + 1]

C14_ReturnsOnlySuccess ==
    /\ retry.invocations <= retry.maxRetries
    /\ retry.phase = "returned" =>
          /\ retry.value \in OperationValues
          /\ Len(retry.failures) = retry.invocations - 1
    /\ retry.phase = "threw" =>
          /\ Len(retry.failures) = retry.invocations
          /\ retry.error = retry.failures[retry.invocations]

----------------------------------------------------------------------------
(* Claims about the routes *)

\* The step answers the start-interview request of slot r, which has passed
\* the validation of its resume.
StartResponds(r) ==
    /\ req[r].kind = "start"
    /\ req[r].pc \in {"questions", "parse"}
    /\ req'[r].pc = "responded"

\* The two fixed lists of three questions
FixedQuestions == {FallbackQuestions, DefaultQuestions}

\* The output the dispatcher call of the request returned cannot be used
Unusable(text) == text.json # "array" \/ Len(text.items) = 0

\* C16: the step that answers a start-interview request with a resume adds one
\* session to the store: index 0, no answers, not complete, a non-empty list
\* of questions, which is a fixed list of three when the dispatcher call of
\* the request failed or its output is no JSON or an empty array; the other
\* sessions are unchanged, and the response carries questions[0] and
\* currentQuestion 1.
C16_StartCreatesSession ==
    [][\A r \in ReqIds :
          StartResponds(r) =>
             LET id  == Len(sessionData) + 1
                 new == sessionData'[id]
             IN  /\ Len(sessionData') = id
                 /\ \A s \in 1..Len(sessionData) : sessionData'[s] = sessionData[s]
                 /\ interviewSessions' = interviewSessions \cup {id}
                 /\ new.resume = req[r].resume
                 /\ new.currentQuestionIndex = 0
                 /\ new.answers = <<>>
                 /\ ~new.isComplete
                 /\ Len(new.questions) > 0
                 /\ req[r].pc = "questions" => new.questions \in FixedQuestions
                 /\ req[r].pc = "parse" /\ Unusable(req[r].call.result.text)
                       => new.questions \in FixedQuestions
                 /\ req'[r].status = 200
                 /\ req'[r].sessionId = id
                 /\ req'[r].question = new.questions[1]
                 /\ req'[r].body.currentQuestion = 1
      ]_vars

\* The step is the arrival of a submit-answer request for session sessionId
\* whose text matches the termination pattern.
EndingArrives(r, sessionId) ==
    /\ Free(r) /\ req'[r] # req[r]
    /\ \E userAnswer \in UserAnswers :
          SubmitAnswer(r, sessionId, userAnswer) /\ IsEndingInterview(userAnswer)

C18_TerminationExamples ==
    probe.tested =>
        /\ probe.userAnswer \in { <<"t", "h", "a", "n", "k", " ", "y", "o", "u">>,
                                 <<"T", "h", "a", "n", "k", "s", "!">>,
                                 <<"b", "y", "e">>,
                                 <<"d", "o", "n", "e">>,
                                 <<"S", "T", "O", "P">> }
              => probe.isEndingInterview
        /\ probe.userAnswer = <<"t", "h", "a", "n", "k", " ", "y", "o", "u", " ",
                            "v", "e", "r", "y", " ", "m", "u", "c", "h", " ",
                            "f", "o", "r", " ", "t", "h", "e", " ", "o", "p", "p", "o", "r", "t", "u", "n", "i", "t", "y">>
              => ~probe.isEndingInterview

\* The answers of a session that carry an evaluation
Evaluated(answers) == {i \in 1..Len(answers) : answers[i].evaluation.present}

RECURSIVE SumTenths(_, _)
SumTenths(answers, indices) ==
    IF indices = {} THEN 0
    ELSE LET i == CHOOSE i \in indices : TRUE
         IN  answers[i].evaluation.score.tenths + SumTenths(answers, indices \ {i})

\* average, in tenths, is the mean of the scores of the evaluations of
\* answers with one decimal: the tenth nearest to it, and 0 without evaluations
IsMeanScore(average, answers) ==
    LET n == Cardinality(Evaluated(answers))
        total == SumTenths(answers, Evaluated(answers))
    IN  /\ average.present
        /\ ~average.nan
        /\ \A i \in Evaluated(answers) : ~answers[i].evaluation.score.nan
        /\ IF n = 0 THEN average.tenths = 0
           ELSE /\ 2 * (average.tenths * n - total) <= n
                /\ 2 * (average.tenths * n - total) > -n

\* C19: a terminating submit-answer on a stored session is not answered with
\* an error, and the averageScore it computes, and returns after its summary
\* call, is the mean of the scores of the stored evaluations with one decimal,
\* 0.0 when the session has no answers.
C19_AverageScore ==
    [][\A r \in ReqIds : \A sessionId \in SessionIds :
          /\ sessionId \in interviewSessions /\ EndingArrives(r, sessionId) =>
                /\ req'[r].status # 500
                /\ IsMeanScore(req'[r].body.averageScore, sessionData[sessionId].answers)
                /\ Len(sessionData[sessionId].answers) = 0 =>
                      /\ req'[r].pc = "responded"
                      /\ req'[r].body.averageScore.tenths = 0
          /\ req[r].pc = "summary" /\ req'[r].pc = "responded" =>
                req'[r].body.averageScore = req[r].body.averageScore
      ]_vars


----------------------------------------------------------------------------
(* Claims about the expiry sweep (SpecSweep) *)

\* A run of the sweep: the time of the last sweep changes
SweepRuns == clock'.sweptAt # clock.sweptAt

\* The age of a stored session at the time of the sweep
Age(sessionId) == clock.now - sessionData[sessionId].startTime

\* C20: one run of the expiry sweep removes exactly the sessions whose
\* startTime is more than one hour before the time of the sweep, in progress
\* or complete, and leaves every remaining session as it was.
C20_SweepRemovesExpired ==
    [][SweepRuns =>
          /\ interviewSessions' =
                {sessionId \in interviewSessions : ~(Age(sessionId) > OneHour)}
          /\ sessionData' = sessionData
      ]_vars

\* A sweep has just run: the complete session started two hours before is
\* gone, the session in progress started ten minutes before is still stored.
C20_Witness ==
    /\ clock.sweptAt = clock.now
    /\ Len(sessionData) = 2
    /\ Age(1) = 2 * OneHour /\ sessionData[1].isComplete /\ 1 \notin interviewSessions
    /\ Age(2) = TenMinutes /\ ~sessionData[2].isComplete /\ 2 \in interviewSessions

\* The step is the arrival of a submit-answer request with a text, for
\* session sessionId
SubmitArrives(r, sessionId) ==
    /\ Free(r) /\ req'[r] # req[r]
    /\ \E userAnswer \in {ShortAnswer, ThankYou} : SubmitAnswer(r, sessionId, userAnswer)

\* C21: a session the sweep has deleted is never again in the store, and
\* every later submit-answer for it is answered 404, also when a
\* submit-answer for it was suspended in a call while the sweep ran.
C21_SweptStaysAbsent ==
    [][\A sessionId \in SessionIds :
          sessionId \notin interviewSessions =>
             /\ sessionId \notin interviewSessions'
             /\ \A r \in ReqIds :
                   SubmitArrives(r, sessionId) =>
                      req'[r].pc = "responded" /\ req'[r].status = 404
      ]_vars

\* The step is the arrival at slot r of a start-interview or submit-answer
\* request that is answered 400 or 404 at once.
Rejected(r) ==
    /\ Free(r) /\ req'[r] # req[r]
    /\ req'[r].kind \in {"start", "submit"}
    /\ req'[r].pc = "responded"
    /\ req'[r].status \in {400, 404}

\* C22: a start-interview without resume, and a submit-answer without
\* sessionId or userAnswer, for an unknown session or for a session without
\* current question, creates no session, changes no session, makes no
\* provider call and changes no exhausted flag.
C22_RejectedChangesNothing ==
    [][\A r \in ReqIds :
          Rejected(r) =>
             /\ interviewSessions' = interviewSessions
             /\ sessionData' = sessionData
             /\ geminiProviders' = geminiProviders
             /\ req'[r].call = IdleReq.call
      ]_vars

\* A submit-answer for a stored session whose index is past its questions has
\* been answered 400.
C22_Witness ==
    \E r \in ReqIds :
        /\ req[r].kind = "submit" /\ req[r].pc = "responded" /\ req[r].status = 400
        /\ req[r].sessionId \in interviewSessions
        /\ LET session == sessionData[req[r].sessionId]
           IN  session.currentQuestionIndex >= Len(session.questions)


----------------------------------------------------------------------------
(* Claims about GET /api/session/:sessionId (SpecGet) *)

\* The step is a GET /api/session/:sessionId answered at slot r
GetStep(r) ==
    Free(r) /\ req'[r] # req[r] /\ req'[r].kind = "get"

\* C23: GET /api/session/:sessionId changes neither the session store nor the
\* provider pool; it answers 404 for an unknown id, and otherwise
\* currentQuestion = currentQuestionIndex + 1 and isComplete; a second call
\* right after it is answered the same.
C23_GetReadsOnly ==
    [][\A r \in ReqIds :
          GetStep(r) =>
             LET sessionId == req'[r].sessionId
                 again == SessionResponse(interviewSessions', sessionData', sessionId)
             IN  /\ interviewSessions' = interviewSessions
                 /\ sessionData' = sessionData
                 /\ geminiProviders' = geminiProviders
                 /\ req'[r].pc = "responded"
                 /\ sessionId \notin interviewSessions => req'[r].status = 404
                 /\ sessionId \in interviewSessions =>
                       /\ req'[r].status = 200
                       /\ req'[r].body.currentQuestion =
                             sessionData[sessionId].currentQuestionIndex + 1
                       /\ req'[r].body.isComplete = sessionData[sessionId].isComplete
                       /\ again.body.currentQuestion = req'[r].body.currentQuestion
                       /\ again.body.isComplete = req'[r].body.isComplete
                 /\ again.status = req'[r].status
      ]_vars

\* A complete session with one answer has been read: currentQuestion is 2.
C23_Witness ==
    /\ req[2].kind = "get" /\ req[2].status = 200
    /\ req[2].body.currentQuestion = 2 /\ req[2].body.isComplete
    /\ sessionData[req[2].sessionId].currentQuestionIndex = 1
    /\ sessionData[req[2].sessionId].isComplete

\* The two sessions agree on what the response is computed from.
SameVisible(a, b) ==
    /\ a.currentQuestionIndex = b.currentQuestionIndex
    /\ Len(a.questions) = Len(b.questions)
    /\ a.isComplete = b.isComplete
    /\ a.startTime = b.startTime

\* C24: the response of GET /api/session/:sessionId depends on sessionId,
\* currentQuestionIndex, the number of questions, isComplete and startTime
\* only: sessions that differ in resume, question texts, answers or
\* evaluations are answered alike, and no response carries the answers.
C24_OnlyVisibleFields ==
    /\ [](\A a, b \in SessionIds :
             SameVisible(sessionData[a], sessionData[b]) =>
                \A sessionId \in GetIds :
                   SessionInfo(sessionId, sessionData[a]) =
                      SessionInfo(sessionId, sessionData[b]))
    /\ [][\A r \in ReqIds :
             GetStep(r) /\ req'[r].status = 200 =>
                /\ DOMAIN req'[r].body = {"sessionId", "currentQuestion",
                                          "totalQuestions", "isComplete", "startTime"}
                /\ req'[r].body = SessionInfo(req'[r].sessionId,
                                              sessionData[req'[r].sessionId])
         ]_vars

\* Two sessions with different resumes, questions, answers and evaluations
\* that agree on index, number of questions, isComplete and startTime, and one
\* of them has been read.
C24_Witness ==
    /\ Len(sessionData) = 2
    /\ SameVisible(sessionData[1], sessionData[2])
    /\ sessionData[1].resume # sessionData[2].resume
    /\ sessionData[1].questions # sessionData[2].questions
    /\ Len(sessionData[1].answers) = 1
    /\ sessionData[1].answers # sessionData[2].answers
    /\ req[2].kind = "get" /\ req[2].status = 200 /\ req[2].sessionId = 1
    /\ req[2].body = SessionInfo(1, sessionData[1])


----------------------------------------------------------------------------
(* Claims about the evaluation of an answer (SpecOne) *)

\* The text cannot be parsed as a JSON object, or the object lacks score,
\* feedback or idealAnswer
Malformed(text) ==
    \/ text.json # "object"
    \/ text.score = NoScore
    \/ ~text.feedback
    \/ ~text.idealAnswer

LastAnswer(session) == session.answers[Len(session.answers)]

\* C25: when the evaluation output of the provider is no JSON object or lacks
\* score, feedback or idealAnswer, submit-answer stores the answer with the
\* default evaluation (score 7), advances the index, asks for the next
\* question, appends it and answers 200.
C25_MalformedEvaluation ==
    [][\A r \in ReqIds :
          LET sessionId == req[r].sessionId
              old == sessionData[sessionId]
              new == sessionData'[sessionId]
          IN  /\ ( /\ req[r].pc = "eval" /\ req'[r].pc # "eval"
                   /\ Malformed(req'[r].aiResponse) ) =>
                     /\ req'[r].pc = "nextq"
                     /\ Len(new.answers) = Len(old.answers) + 1
                     /\ LastAnswer(new).answer = req[r].userAnswer
                     /\ LastAnswer(new).evaluation = [present |-> TRUE, score |-> Num(70)]
                     /\ new.currentQuestionIndex = old.currentQuestionIndex + 1
              /\ ( /\ req[r].pc = "nextq" /\ req'[r].pc # "nextq"
                   /\ Malformed(req[r].aiResponse) ) =>
                     /\ req'[r].pc = "responded" /\ req'[r].status = 200
                     /\ req'[r].evaluation = [present |-> TRUE, score |-> Num(70)]
                     /\ Len(new.questions) = Len(old.questions) + 1
                     /\ new.answers = old.answers
      ]_vars

\* An answer whose evaluation output lacked feedback is stored with score 7,
\* and the request is waiting for the next question.
C25_Witness ==
    /\ req[1].pc = "nextq"
    /\ req[1].aiResponse = ObjectText(JsonNumber(80), FALSE, TRUE)
    /\ LastAnswer(sessionData[req[1].sessionId]).evaluation.score = Num(70)
    /\ sessionData[req[1].sessionId].currentQuestionIndex = 1


\* The answer contains example, experience, project, worked, managed or led,
\* in any case
HasExampleWord(answer) ==
    \E w \in ExampleWords : \E i \in 1..Len(answer) :
        /\ i + Len(w) - 1 <= Len(answer)
        /\ \A j \in 1..Len(w) : ToLowerChar(answer[i + j - 1]) = w[j]

Indicator(b) == IF b THEN 1 ELSE 0

\* The step ends the evaluation call of request r with a failure
EvaluationFails(r) ==
    /\ req[r].pc = "eval" /\ req'[r].pc # "eval"
    /\ \E error \in ConcErrors : ProviderFails(r, error)

\* C26: when the evaluation call fails, the score stored with the answer is
\* min(10, 6 + [the answer contains a word of the pattern] + [length > 100]
\* + [length > 200]); it lies in 6..9, and is at least 8 for an answer of
\* more than 200 characters.
C26_FallbackScore ==
    [][\A r \in ReqIds :
          EvaluationFails(r) =>
             LET answer == req[r].userAnswer
                 stored == LastAnswer(sessionData'[req[r].sessionId])
                 score == stored.evaluation.score
                 sum == 6 + Indicator(HasExampleWord(answer))
                          + Indicator(Len(answer) > 100)
                          + Indicator(Len(answer) > 200)
             IN  /\ stored.answer = answer
                 /\ ~score.nan
                 /\ score.tenths = 10 * Min(10, sum)
                 /\ score.tenths \in {60, 70, 80, 90}
                 /\ Len(answer) > 200 => score.tenths >= 80
      ]_vars

\* Answers of 201 characters with "Led", of 101 characters without a word of
\* the pattern have been stored with the scores 9 and 7 after failed
\* evaluation calls.
C26_Witness ==
    /\ Len(sessionData) = 1
    /\ Len(sessionData[1].answers) = 2
    /\ sessionData[1].answers[1].answer = PadTo(Led, LongLength + 1)
    /\ sessionData[1].answers[1].evaluation.score = Num(90)
    /\ sessionData[1].answers[2].answer = Padding(DetailedLength + 1)
    /\ sessionData[1].answers[2].evaluation.score = Num(70)
    /\ req[1].pc = "nextq"
    /\ req[1].aiResponse = ObjectText(JsonNumber(70), TRUE, TRUE)


----------------------------------------------------------------------------
(* Claims about the course of an interview *)

\* The step stores a session
SessionStored == Len(sessionData') = Len(sessionData) + 1

\* The step answers the submit-answer request of slot r that stored the
\* n-th answer of its session
AnswerResponded(r, n) ==
    /\ req[r].kind = "submit" /\ req[r].pc = "nextq" /\ req'[r].pc = "responded"
    /\ Len(sessionData[req[r].sessionId].answers) = n

\* C27: an interview consists of 5 questions generated at start, and it
\* completes, with the final overall score, after the answer to the fifth
\* question, without a termination phrase.
C27_ReadmeFlow ==
    [][/\ SessionStored =>
             Len(sessionData'[Len(sessionData')].questions) = ReadmeQuestions
       /\ \A r \in ReqIds :
             AnswerResponded(r, ReadmeQuestions) =>
                /\ sessionData'[req[r].sessionId].isComplete
                /\ req'[r].body.averageScore.present
      ]_vars


\* Slot r holds the response of a start-interview or submit-answer request
\* for session sessionId that returned a question
QuestionReturned(r, sessionId) ==
    /\ req[r].pc = "responded" /\ req[r].status = 200
    /\ req[r].kind \in {"start", "submit"}
    /\ req[r].sessionId = sessionId
    /\ req[r].question # Undefined

\* C28: in a session driven by start-interview and submit-answer, one request
\* after the other, the question an answer is evaluated against and stored
\* with is the question the previous response returned: firstQuestion for the
\* first answer, nextQuestion afterwards.
C28_AnswersReturnedQuestion ==
    [][\A r \in ReqIds : \A sessionId \in SessionIds :
          /\ ( /\ QuestionReturned(r, sessionId)
               /\ req'[r].kind = "submit" /\ req'[r].pc = "eval"
               /\ req'[r].sessionId = sessionId ) =>
                 req'[r].currentQuestion = req[r].question
          /\ ( /\ req[r].kind = "submit" /\ req[r].pc = "eval" /\ req'[r].pc = "nextq"
               /\ req[r].sessionId = sessionId ) =>
                 LastAnswer(sessionData'[sessionId]).question = req[r].currentQuestion
      ]_vars


\* The questions of the list, as a set
QuestionSet(questions) == {questions[i] : i \in 1..Len(questions)}

\* C29: the questions start-interview stores in a session are those parsed
\* from the output its own dispatcher call returned, or the fallback when
\* that call failed, however the start-interview requests interleave; no
\* session holds a question generated for the resume of another request.
C29_OwnQuestions ==
    [][\A r \in ReqIds :
          StartResponds(r) =>
             LET new == sessionData'[Len(sessionData')]
                 own == req[r].call.result.text
             IN  /\ req[r].pc = "questions" => new.questions = FallbackQuestions
                 /\ req[r].pc = "parse" =>
                       IF Unusable(own) THEN new.questions \in FixedQuestions
                       ELSE new.questions = own.items
                 /\ \A resume \in StartResumes :
                       resume # new.resume =>
                          QuestionFor(resume) \notin QuestionSet(new.questions)
      ]_vars


\* The step is one of a submit-answer request
SubmitStep ==
    \E r \in ReqIds :
        /\ req'[r] # req[r]
        /\ req[r].kind = "submit" \/ req'[r].kind = "submit"

\* C30: once isComplete of a session is true, no step of a submit-answer
\* request, arriving later or in flight, appends an answer or a question to
\* the session or advances its currentQuestionIndex.
C30_CompleteIsTerminal ==
    [][\A sessionId \in SessionIds :
          sessionData[sessionId].isComplete /\ SubmitStep =>
             /\ sessionData'[sessionId].isComplete
             /\ sessionData'[sessionId].answers = sessionData[sessionId].answers
             /\ sessionData'[sessionId].questions = sessionData[sessionId].questions
             /\ sessionData'[sessionId].currentQuestionIndex =
                   sessionData[sessionId].currentQuestionIndex
      ]_vars


----------------------------------------------------------------------------
(* Claims about the records of a session *)

\* C31: the answer record at position k of a session (counted from 0) has
\* questionIndex k and the question questions[k], whatever submit-answer
\* requests overlap on the session.
C31_RecordsMatchQuestions ==
    \A sessionId \in SessionIds :
        LET session == sessionData[sessionId]
        IN  \A k \in 1..Len(session.answers) :
               /\ session.answers[k].questionIndex = k - 1
               /\ session.answers[k].question = QuestionAt(session, k - 1)


\* C32: in a session started by start-interview and advanced by
\* submit-answer requests one after the other, questions[currentQuestionIndex]
\* is a non-empty question whenever no request is in flight, and an answer
\* that does not end the interview is never answered 400, whatever the
\* providers return.
C32_CurrentQuestionExists ==
    /\ [](\A sessionId \in SessionIds :
             (\A r \in ReqIds : Free(r)) =>
                Truthy(QuestionAt(sessionData[sessionId],
                                  sessionData[sessionId].currentQuestionIndex)))
    /\ [][\A r \in ReqIds : \A sessionId \in SessionIds :
             ( /\ sessionId \in interviewSessions
               /\ SubmitAnswerUpTo(r, sessionId, ShortAnswer, ReadmeQuestions) ) =>
                req'[r].status # 400
         ]_vars


\* C33: every stored answer record carries an evaluation with a score, so a
\* terminating submit-answer is never answered 500 and no failed request
\* leaves a session complete, whatever /api/answer and /api/submit-answer
\* requests the session received.
C33_RecordsEvaluated ==
    /\ [](\A sessionId \in SessionIds :
             \A k \in 1..Len(sessionData[sessionId].answers) :
                sessionData[sessionId].answers[k].evaluation.present)
    /\ [][\A r \in ReqIds : \A sessionId \in SessionIds :
             sessionId \in interviewSessions /\ EndingArrives(r, sessionId) =>
                 ~( /\ req'[r].pc = "responded" /\ req'[r].status = 500
                    /\ sessionData'[sessionId].isComplete )
         ]_vars

(* Claims about the termination of a call (SpecSeqFair) *)

\* Every provider invocation settles and every backoff delay elapses.
SpecSeqFair ==
    /\ SpecSeq
    /\ WF_vars(SeqProviderFails \/ SeqProviderSucceeds)
    /\ WF_vars(SeqBackoffElapsed)

\* The number of invocations of provider p in the call so far.
InvocationsOf(p) == Cardinality({i \in 1..Len(hist.invoked) : hist.invoked[i] = p})

CallInProgress == req[1].pc = "calling" /\ Call1.phase \in {"provider", "delay"}

CallEnded == Call1.phase \in {"returned", "threw"}

\* C34: provided every provider invocation and every delay completes, each
\* callGeminiAI call returns or throws, having invoked each provider at most
\* maxRetries times and so the pool of N providers at most N * maxRetries
\* times, also when the call starts with the all-exhausted reset.
C34_CallTerminates ==
    /\ [](\A p \in 1..PoolSize : InvocationsOf(p) <= DefaultMaxRetries)
    /\ [](Len(hist.invoked) <= PoolSize * DefaultMaxRetries)
    /\ CallInProgress ~> CallEnded

\* A call that started with the reset has ended after N * maxRetries invocations.
C34_Witness ==
    /\ hist.startExhausted = 1..PoolSize
    /\ CallEnded
    /\ Len(hist.invoked) = PoolSize * DefaultMaxRetries
    /\ \A p \in 1..PoolSize : InvocationsOf(p) = DefaultMaxRetries

----------------------------------------------------------------------------
(* A long interview: one session, one request at a time, answers up to    *)
(* SmartAnswers; the call for the next question may fail.                 *)

SmartAnswers == 10    \* answers per session in SpecSmart

NextSmart ==
    \/ Started < MaxSessions /\ StartInterview(1, "resume A")
          /\ UNCHANGED <<hist, retry, clock, probe>>
    \/ StartParse(1) /\ UNCHANGED <<hist, retry, clock, probe>>
    \/ SubmitAnswerUpTo(1, 1, ShortAnswer, SmartAnswers)
          /\ UNCHANGED <<hist, retry, clock, probe>>
    \/ \E error \in ConcErrors :
          req[1].pc = "nextq" /\ ProviderFails(1, error)
             /\ UNCHANGED <<hist, retry, clock, probe>>
    \/ ProviderSucceeds(1, ExpectedResponse(req[1].pc))
          /\ UNCHANGED <<hist, retry, clock, probe>>
    \/ BackoffElapsed(1) /\ UNCHANGED <<hist, retry, clock, probe>>

SpecSmart == InitSessions /\ [][NextSmart]_vars

(* Claims about the fallback for the next question (SpecSmart) *)

\* The next-question call of request 1 fails and the catch of 664 answers.
NextQuestionFails ==
    /\ req[1].pc = "nextq"
    /\ req'[1].pc = "responded"
    /\ \E error \in ConcErrors : ProviderFails(1, error)

\* C35: when next-question generation fails, the index selected in the
\* 9-entry fallback list is within 0..8 and at least min(answers.length, 8),
\* so a defined question is appended and returned; once the session has 8 or
\* more answers the last entry is the one chosen.
C35_SmartFallbackIndex ==
    [][NextQuestionFails =>
          LET session == sessionData[req[1].sessionId]
              n       == Len(session.answers)
          IN  /\ Len(SmartFallbackQuestions) = 9
              /\ \E selectedIndex \in 0..8 :
                    LET smartQuestion == SmartFallbackQuestions[selectedIndex + 1]
                    IN  /\ selectedIndex >= Min(n, 8)
                        /\ n >= 8 => selectedIndex = 8
                        /\ Truthy(smartQuestion)
                        /\ sessionData'[req[1].sessionId].questions =
                               Append(session.questions, smartQuestion)
                        /\ req'[1].status = 200
                        /\ req'[1].question = smartQuestion
    ]_vars

\* A session with 8 or more answers got the last entry; an early one got
\* an entry past its number of answers.
C35_Witness ==
    /\ req[1].pc = "responded" /\ req[1].kind = "submit" /\ req[1].status = 200
    /\ LET session == sessionData[1]
       IN  /\ Len(session.answers) >= 8
           /\ req[1].question = SmartFallbackQuestions[9]
           /\ session.questions[Len(session.questions)] = SmartFallbackQuestions[9]
           /\ \E k \in 1..Len(session.questions) :
                  session.questions[k] = SmartFallbackQuestions[4]

(* Claims about the completion flag (Spec) *)

\* A POST /api/answer arrives that stores the answer to the last question.
AnswerReachesEnd(r, sessionId) ==
    /\ Free(r) /\ req'[r] # req[r]
    /\ \E answer \in Answers : Answer(r, sessionId, answer)
    /\ sessionData'[sessionId].currentQuestionIndex >= Len(sessionData'[sessionId].questions)

\* C36: isComplete of a session is false at creation, becomes true only by
\* a terminating submit-answer or by a POST /api/answer that reaches the end
\* of the question list, and never returns to false while the session is in
\* the store.
C36_IsCompleteOnlyRises ==
    [][ /\ \A sessionId \in 1..Len(sessionData') :
              sessionId > Len(sessionData) =>
                  /\ sessionId \in interviewSessions'
                  /\ ~sessionData'[sessionId].isComplete
        /\ \A sessionId \in SessionIds :
              /\ ( /\ sessionData[sessionId].isComplete
                   /\ sessionId \in interviewSessions \cap interviewSessions' ) =>
                      sessionData'[sessionId].isComplete
              /\ ( /\ ~sessionData[sessionId].isComplete
                   /\ sessionData'[sessionId].isComplete ) =>
                      \E r \in ReqIds : \/ EndingArrives(r, sessionId)
                                        \/ AnswerReachesEnd(r, sessionId)
    ]_vars

\* A complete session in the store to which an ordinary submit-answer has
\* been answered.
C36_Witness ==
    \E sessionId \in interviewSessions : \E r \in ReqIds :
        /\ sessionData[sessionId].isComplete
        /\ Len(sessionData[sessionId].answers) > 0
        /\ req[r].kind = "submit" /\ req[r].pc = "responded" /\ req[r].status = 200
        /\ req[r].sessionId = sessionId
        /\ Truthy(req[r].question)

====
